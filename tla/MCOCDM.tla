------------------------------- MODULE MCOCDM -------------------------------
(***************************************************************************)
(* OCDM for TLC, in three groups of behaviours: more sessions than buffers;*)
(* a session whose keys are found in initialization data of every form;    *)
(* and the DRM systems that libraries and a configuration make.            *)
(***************************************************************************)
EXTENDS OCDM, Sequences, TLC

CONSTANTS s1, s2, s3, Keys, MaxUpdates, Libraries, Extended, SystemConfigs, Contents, InitData

\* There is a library, and each entry of a configuration has finitely many designators.
ASSUME SystemsAssumption ==
  /\ Libraries \in Seq(STRING) /\ Libraries # <<>>
  /\ \A config \in SystemConfigs : /\ config \in Seq({config[i] : i \in DOMAIN config})
                                   /\ \A i \in DOMAIN config : IsFiniteSet(config[i].designators)

VARIABLES group,
          session, data, keyIds, toTell, listening, telling, told, updated, updates,
          system, configured, loaded, systemToFactory, codecs, types,
          initialized, deinitialized, decryption

MCSessions == {s1, s2, s3}

MCLibraries == <<"Widevine", "ClearKey", "PlayReady">>

\* Texts, boxes and objects, whole and broken.
Plain(k) == <<"<KID>", k, "</KID>">>
Attributed(k) == <<"<KID..>", "ALGID", "VALUE", k, "</KID>">>
Texts == {Plain("k1") \o <<"x">> \o Plain("k2"), Attributed("k2") \o Attributed("k1"),
          Plain("k1") \o Attributed("k3"), Plain("k2") \o <<"<KID>", "k1">>, Plain("short")}
Record(type, fits, xml) == [type |-> type, fits |-> fits, xml |-> xml]
Objects == {[size |-> s, count |-> c, records |-> <<Record(1, TRUE, x), Record(2, TRUE, Plain("k3")), Record(1, f, Plain("k1"))>>] :
              s \in BOOLEAN, c \in {0, 1, 3}, f \in BOOLEAN, x \in {Plain("k1"), Attributed("k2")}}
Box(version, fits, drm, keys, payload) ==
  [pssh |-> TRUE, version |-> version, fits |-> fits, system |-> drm, keys |-> keys, payload |-> payload]
Boxes == {Box(1, {"keys", "payload"}, "unknown", <<"k1", "k2">>, <<>>), Box(1, {}, "ClearKey", <<"k1">>, <<>>),
          Box(1, {"keys"}, "Widevine", <<"k3">>, <<"k1">>), Box(0, {"payload"}, "Widevine", <<>>, <<"k2", "k3", "k2">>),
          Box(0, {"payload"}, "PlayReady", <<>>, CHOOSE o \in Objects : o.size /\ o.count = 3),
          Box(2, {"keys", "payload"}, "Widevine", <<"k1">>, <<"k1">>),
          [pssh |-> FALSE]}
MCInitData == {[form |-> "xml", content |-> t] : t \in Texts} \cup {[form |-> "object", content |-> o] : o \in Objects} \cup
            {[form |-> "boxes", content |-> <<b, c>>] : b, c \in Boxes} \cup
            {[form |-> "json", content |-> <<"k2", "k1", "k2">>], [form |-> "other", content |-> <<>>]}

\* Two systems; a third has no library, and one entry takes the designator
\* of another.
Entry(name, has, designators) ==
  [name |-> name, has |-> has, designators |-> designators, codecs |-> {"avc1"}, types |-> {"video/webm"}]
MCSystemConfigs ==
  LET Kinds == {{"designators"}, {"designators", "codecs"}, {"designators", "types"}, {"designators", "codecs", "types"}}
  IN  {<<Entry("PlayReady", h, {"", "com.pr", "org.pr"}), Entry("Widevine", g, {"com.wv", "com.pr"}), Entry(n, {"designators"}, d)>> :
         h, g \in Kinds, n \in {"ClearKey", "Widevine", "Nagra"}, d \in {{"org.ck"}, {"com.wv"}}} \cup {<<>>}
MCContents == {[type |-> "", codecs |-> {}], [type |-> "video/mp4", codecs |-> {"avc1", "vp9"}],
             [type |-> "video/mp4", codecs |-> {}], [type |-> "video/webm", codecs |-> {"vp9"}]}

Session == INSTANCE OCDMKeys WITH phase <- session
DRM == INSTANCE OCDMSystems WITH phase <- system

\* Initialization data is broken where the parser looks for it, not anywhere.
ASSUME DataAssumption == \A d \in InitData : Session!WellFormed(d)

sessionVars == <<session, data, keyIds, toTell, listening, telling, told, updated, updates>>
drmVars == <<system, configured, loaded, systemToFactory, codecs, types, initialized, deinitialized, decryption>>

MCInit ==
  /\ group \in {"buffers", "keys", "systems"}
  /\ Init /\ Session!Init /\ DRM!Init
  /\ group # "systems" => configured = <<>>

MCNext ==
  /\ \/ group = "buffers" /\ Next /\ UNCHANGED <<sessionVars, drmVars>>
     \/ group = "keys" /\ Session!Next /\ UNCHANGED <<vars, drmVars>>
     \/ group = "systems" /\ DRM!Next /\ UNCHANGED <<vars, sessionVars>>
  /\ UNCHANGED group

\* The fairness of OCDM, in its group.
InBuffers(A) == group = "buffers" /\ A

MCSpec ==
  /\ MCInit /\ [][MCNext]_<<group, vars, sessionVars, drmVars>>
  /\ \A s \in Sessions : /\ WF_vars(InBuffers(Progress(s))) /\ WF_vars(InBuffers(Called(s)))
                         /\ SF_vars(InBuffers(Remove(s)))

KeysOfTheSession == Session!KeysOfTheSession
OfferedSystemsWork == DRM!OfferedSystemsWork
=============================================================================
