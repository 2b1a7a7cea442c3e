------------------------------ MODULE OCDMKeys ------------------------------
(***************************************************************************)
(* The keys of a DRM session: those that its initialization data names, in *)
(* whatever form (CommonEncryptionData), and those that the DRM system     *)
(* tells of later.                                                         *)
(*                                                                         *)
(* External: the DRM system, whose thread may tell of a key as soon as Run *)
(* was called, and the comparison of key ids, which knows that PlayReady   *)
(* has a byte order of its own.                                            *)
(*                                                                         *)
(* Not so, and not claimed: a client may be told that a key is pending     *)
(* after it was told that it is usable, when the DRM system was faster than*)
(* CreateSession; in a text with both forms of KID, one with attributes    *)
(* that comes before one without is overlooked; Parse ends for a box whose *)
(* size is 0; OnKeyStatusesUpdated can be called when the callback was     *)
(* revoked.                                                                *)
(*                                                                         *)
(* Not modelled: the sums of 16 and 32 bits behind the comparisons of      *)
(* lengths and counts.  "fits" is what a comparison should find; a sum     *)
(* that wraps around, and the reading beyond the end that follows, is not  *)
(* in the model.                                                           *)
(***************************************************************************)
EXTENDS Naturals, SequencesExt

CONSTANTS Keys,        \* key ids
          InitData,    \* what sessions are created with, see below
          MaxUpdates   \* bound: keys that the DRM system tells of

VARIABLES
  phase,      \* "none", "runs" (Run was called), "tells" (CreateSession
              \* announces the keys) or "open"
  data,       \* the initialization data
  keyIds,     \* _cencData._keyIds
  toTell,     \* keys that CreateSession has still to announce
  listening,  \* _callback is not null
  telling,    \* the key and status that the DRM system is telling the client, or None
  told,       \* key -> what the client was told last, or "nothing"
  updated,    \* history: key -> its last status from the DRM system, or "nothing"
  updates     \* number of updates, up to MaxUpdates

keyVars == <<phase, data, keyIds, toTell, listening, telling, told, updated, updates>>

None == <<>>

-----------------------------------------------------------------------------
(* CommonEncryptionData.  Data is [form, content]:                         *)
(*   "boxes": boxes [pssh, version, fits, system, keys, payload], where    *)
(*      fits tells which of "keys" and "payload" are within the box;       *)
(*   "xml": a sequence of "<KID>", "<KID..>" (with attributes), "VALUE",   *)
(*      "</KID>" and others; a key stands for its value in base 64;        *)
(*   "json": the ids of "kids";                                            *)
(*   "object": a PlayReady object [size, count, records], whose records    *)
(*      are [type, fits, xml]; and anything else.                          *)
(* WellFormed(data), below, tells which texts are those of PlayReady.      *)

FindInXML(xml, t, from) == SelectInSubSeq(xml, from, Len(xml), LAMBDA e : e = t)

systemType == {"Common", "ClearKey", "PlayReady", "Widevine"}

Has(list, key) == \E i \in 1 .. Len(list) : list[i].id = key

\* Mutant: a key that is there already is added once more.
AddedTwice(list, key, system) == Append(list, [id |-> key, systems |-> {system}, status |-> "Pending"])

AddKeyId(list, key, system) ==
  IF Has(list, key)
  THEN [i \in 1 .. Len(list) |-> IF list[i].id = key THEN [list[i] EXCEPT !.systems = @ \cup {system}]
                                                     ELSE list[i]]
  ELSE Append(list, [id |-> key, systems |-> {system}, status |-> "Pending"])

AddKeyIds(list, keys, system) == FoldLeft(LAMBDA l, k : AddKeyId(l, k, system), list, keys)

\* The key between the tags at begin and end, or after VALUE.
Value(xml, begin, end) ==
  LET value == FindInXML(xml, "VALUE", begin + 1)
      at    == 1 + (IF value \in 1 .. end THEN value ELSE begin)
  IN  IF at < end /\ xml[at] \in Keys THEN <<xml[at]>> ELSE <<>>

\* One of the two loops: the keys it finds, and where it leaves the text to the other.
Pass(tag, xml, from) ==
  LET Found[i \in 1 .. Len(xml) + 1] ==
        LET begin == FindInXML(xml, tag, i)
            end   == FindInXML(xml, "</KID>", begin + 1)
        IN  IF begin = 0 THEN [keys |-> <<>>, next |-> i]
            ELSE IF end = 0 THEN [keys |-> <<>>, next |-> Len(xml) + 1]
            ELSE [keys |-> Value(xml, begin, end) \o Found[end + 1].keys, next |-> Found[end + 1].next]
  IN  Found[from]

ParseXMLBox(list, xml) ==
  LET plain == Pass("<KID>", xml, 1)
      other == Pass("<KID..>", xml, plain.next)
  IN  AddKeyIds(list, plain.keys \o other.keys, "PlayReady")

\* Records until one does not fit, or as many as are counted.
ParsePlayReadyPSSHData(list, object) ==
  LET broken  == SelectInSeq(object.records, LAMBDA r : ~r.fits)
      whole   == IF broken = 0 THEN Len(object.records) ELSE broken - 1
      records == SubSeq(object.records, 1, IF object.count < whole THEN object.count ELSE whole)
  IN  IF ~object.size THEN list
      ELSE FoldLeft(LAMBDA l, r : IF r.type = 1 THEN ParseXMLBox(l, r.xml) ELSE l, list, records)

ParsePayload(list, box) ==
  IF "payload" \notin box.fits THEN list
  ELSE CASE box.system = "PlayReady" -> ParsePlayReadyPSSHData(list, box.payload)
         [] box.system = "Widevine"  -> AddKeyIds(list, box.payload, "Widevine")
         [] OTHER                    -> list

\* Only version 1 has keys before the payload, and if they do not fit nothing does.
ParsePSSHBox(list, box) ==
  LET hasKeys == box.version = 1 /\ "keys" \in box.fits
      known   == IF box.system = "unknown" THEN "Common" ELSE box.system
  IN  CASE box.version = 0 -> ParsePayload(list, box)
        [] hasKeys         -> AddKeyIds(ParsePayload(list, box), box.keys, known)
        [] OTHER           -> list

Parse(d) ==
  LET other == IF d.form = "boxes" THEN SelectInSeq(d.content, LAMBDA b : ~b.pssh) ELSE 0
      boxes == IF other = 0 THEN d.content ELSE SubSeq(d.content, 1, other - 1)
  IN  CASE d.form = "boxes"  -> FoldLeft(ParsePSSHBox, <<>>, boxes)
        [] d.form = "xml"    -> ParseXMLBox(<<>>, d.content)
        [] d.form = "json"   -> AddKeyIds(<<>>, d.content, "ClearKey")
        [] d.form = "object" -> ParsePlayReadyPSSHData(<<>>, d.content)
        [] OTHER             -> <<>>

\* A key that the initialization data did not name is added.
UpdateKeyStatus(list, key, status) ==
  LET all == IF Has(list, key) THEN list
             ELSE Append(list, [id |-> key, systems |-> {}, status |-> "Pending"])
  IN  [i \in 1 .. Len(all) |-> IF all[i].id = key THEN [all[i] EXCEPT !.status = status] ELSE all[i]]

StatusOf(key) == IF Has(keyIds, key) THEN keyIds[SelectInSeq(keyIds, LAMBDA k : k.id = key)].status ELSE "Pending"

\* Of other data, whether this session has all its keys.
IsSupported(list) == \A i \in 1 .. Len(list) : Has(keyIds, list[i].id)

-----------------------------------------------------------------------------
(* The session.                                                            *)

\* What the messages of the DRM system mean; what it says otherwise is an error.
KeyStatus ==
  [KeyUsable |-> "Usable", KeyReleased |-> "Released", KeyExpired |-> "Expired",
   KeyOutputRestricted |-> "OutputRestricted", KeyOutputDownscaled |-> "OutputDownscaled",
   SEC_RESULT_HW_FAILURE |-> "HWError", KeyOutputRestrictedHDCP22 |-> "OutputRestrictedHDCP22",
   other |-> "InternalError"]

Constructed ==
  /\ phase = "none"
  /\ phase' = "runs"
  /\ \E d \in InitData :
       /\ data' = d
       /\ keyIds' = Parse(d)
  /\ listening' = TRUE
  /\ UNCHANGED <<toTell, telling, told, updated, updates>>

CreateSession ==
  /\ phase = "runs"
  /\ phase' = "tells"
  /\ toTell' = [i \in 1 .. Len(Parse(data)) |-> Parse(data)[i].id]
  /\ UNCHANGED <<data, keyIds, listening, telling, told, updated, updates>>

\* By the callback that CreateSession was given, also if it was revoked.
TellPending ==
  /\ phase = "tells"
  /\ IF toTell = <<>> THEN phase' = "open" /\ UNCHANGED <<toTell, told>>
     ELSE /\ told' = [told EXCEPT ![Head(toTell)] = "Pending"]
          /\ toTell' = Tail(toTell)
          /\ UNCHANGED phase
  /\ UNCHANGED <<data, keyIds, listening, telling, updated, updates>>

OnKeyStatusUpdate(key, message) ==
  /\ phase # "none" /\ telling = None
  /\ updates < MaxUpdates /\ updates' = updates + 1
  /\ keyIds' = UpdateKeyStatus(keyIds, key, KeyStatus[message])
  /\ updated' = [updated EXCEPT ![key] = KeyStatus[message]]
  /\ telling' = [key |-> key, status |-> KeyStatus[message]]
  /\ UNCHANGED <<phase, data, toTell, listening, told>>

Told ==
  /\ telling # None
  /\ told' = IF listening THEN [told EXCEPT ![telling.key] = telling.status] ELSE told
  /\ telling' = None
  /\ UNCHANGED <<phase, data, keyIds, toTell, listening, updated, updates>>

Revoke ==
  /\ phase = "open" /\ listening
  /\ listening' = FALSE
  /\ UNCHANGED <<phase, data, keyIds, toTell, telling, told, updated, updates>>

-----------------------------------------------------------------------------
Init ==
  /\ phase = "none" /\ data = None /\ keyIds = <<>> /\ toTell = <<>>
  /\ listening = FALSE /\ telling = None
  /\ told = [k \in Keys |-> "nothing"] /\ updated = [k \in Keys |-> "nothing"]
  /\ updates = 0

Next ==
  \/ Constructed \/ CreateSession \/ TellPending \/ Told \/ Revoke
  \/ \E k \in Keys, m \in {"KeyUsable", "KeyExpired", "other"} : OnKeyStatusUpdate(k, m)

Spec == Init /\ [][Next]_keyVars

-----------------------------------------------------------------------------
(* Properties.                                                             *)

\* The values of the KID elements of a text, by position.
InText(xml) ==
  {xml[i] : i \in {j \in 1 .. Len(xml) : xml[j] \in Keys /\ j > 1 /\ xml[j - 1] \in {"<KID>", "VALUE"}
                                          /\ \E e \in j .. Len(xml) : xml[e] = "</KID>"}}

\* The texts of PlayReady, if they are whole or end too early: elements do not
\* contain others, one with attributes has a VALUE at most and no key before it, and
\* those without attributes, of the older version of the format, come first.
WellFormedText(xml) ==
  LET Tags == {"<KID>", "<KID..>"}
      At(i, t) == i \in 1 .. Len(xml) /\ xml[i] \in t
      Within(i, j) == i < j /\ ~\E e \in i + 1 .. j - 1 : At(e, {"</KID>"})
  IN  /\ xml \in Seq({xml[i] : i \in DOMAIN xml}) /\ Keys \cap (Tags \cup {"VALUE", "</KID>"}) = {}
      /\ \A i, j \in 1 .. Len(xml) :
           /\ i < j => ~(At(i, {"<KID..>"}) /\ At(j, {"<KID>"}))
           /\ Within(i, j) => ~(At(i, Tags) /\ At(j, Tags)) /\ ~(At(i, {"<KID>", "VALUE"}) /\ At(j, {"VALUE"}))
           /\ At(i, {"<KID..>"}) /\ j = i + 1 => ~At(j, Keys)
           /\ At(j, {"VALUE"}) => \E b \in 1 .. Len(xml) : At(b, {"<KID..>"}) /\ Within(b, j)

WellFormedObject(object) ==
  /\ object.size \in BOOLEAN /\ object.count \in Nat
  /\ object.records \in Seq({object.records[i] : i \in DOMAIN object.records})
  /\ \A i \in DOMAIN object.records :
       LET record == object.records[i]
       IN  record.fits \in BOOLEAN /\ (record.type = 1 => WellFormedText(record.xml))

WellFormedBox(box) ==
  box.pssh =>
    /\ box.version \in Nat /\ box.system \in systemType \cup {"unknown"}
    /\ box.keys \in Seq(Keys)
    /\ box.system = "Widevine" => box.payload \in Seq(Keys)
    /\ box.system = "PlayReady" => WellFormedObject(box.payload)

WellFormed(d) ==
  CASE d.form = "boxes"  -> /\ d.content \in Seq({d.content[i] : i \in DOMAIN d.content})
                            /\ \A i \in DOMAIN d.content : d.content[i].pssh \in BOOLEAN /\ WellFormedBox(d.content[i])
    [] d.form = "xml"    -> WellFormedText(d.content)
    [] d.form = "json"   -> d.content \in Seq(Keys)
    [] d.form = "object" -> WellFormedObject(d.content)
    [] OTHER             -> TRUE

InObject(object) ==
  UNION {InText(object.records[i].xml) :
           i \in {j \in 1 .. Len(object.records) :
                    /\ object.size /\ j <= object.count /\ object.records[j].type = 1
                    /\ \A e \in 1 .. j : object.records[e].fits}}

InBox(box) ==
  {<<k, "Widevine">> : k \in IF box.system = "Widevine" THEN ToSet(box.payload) ELSE {}} \cup
  {<<k, "PlayReady">> : k \in IF box.system = "PlayReady" THEN InObject(box.payload) ELSE {}}

\* The keys that the data names, each with a DRM system that it names it for.
Named(d) ==
  CASE d.form = "xml"    -> InText(d.content) \X {"PlayReady"}
    [] d.form = "object" -> InObject(d.content) \X {"PlayReady"}
    [] d.form = "json"   -> ToSet(d.content) \X {"ClearKey"}
    [] d.form = "boxes"  ->
         UNION {(IF "payload" \in d.content[i].fits /\ (d.content[i].version = 0 \/ "keys" \in d.content[i].fits)
                   THEN InBox(d.content[i]) ELSE {}) \cup
                (IF d.content[i].version = 1 /\ "keys" \in d.content[i].fits
                   THEN ToSet(d.content[i].keys) \X {IF d.content[i].system = "unknown" THEN "Common"
                                                     ELSE d.content[i].system}
                   ELSE {}) :
                 i \in {j \in 1 .. Len(d.content) :
                          (\A e \in 1 .. j : d.content[e].pssh) /\ d.content[j].version < 2}}
    [] OTHER             -> {}

\* Whatever the form of the data and whatever the DRM system has told since,
\* a session has each key that was named once, for the systems that it was
\* named for, with the status that was told last; and so does its client,
\* unless the key was still to be announced (CommonEncryptionData, Sink).
KeysOfTheSession ==
  phase # "none" =>
    /\ \A i, j \in 1 .. Len(keyIds) : keyIds[i].id = keyIds[j].id => i = j
    /\ {k \in Keys : Has(keyIds, k)} = {n[1] : n \in Named(data)} \cup {k \in Keys : updated[k] # "nothing"}
    /\ IsSupported(Parse(data))
    /\ \A i \in 1 .. Len(keyIds) :
         /\ keyIds[i].systems = {n[2] : n \in {m \in Named(data) : m[1] = keyIds[i].id}}
         /\ keyIds[i].status = IF updated[keyIds[i].id] = "nothing" THEN "Pending" ELSE updated[keyIds[i].id]
    /\ \A k \in Keys : listening /\ telling = None /\ told[k] \notin {"nothing", "Pending"} => told[k] = StatusOf(k)
=============================================================================
