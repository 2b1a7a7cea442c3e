--------------------------- MODULE SecurityAgent ---------------------------
(***************************************************************************)
(* The access control lists of SecurityAgent: how files become rules, how  *)
(* the plugin loads and drops them, and how a token becomes a context that *)
(* decides by them.                                                        *)
(*                                                                         *)
(* Not so, and not claimed: the rules of a role are those of the first     *)
(* file that has it, so that a file of the directory that is changed or    *)
(* removed keeps its rules until the plugin stops; an assignment to a role *)
(* of a file that is read later has no effect until the directory is read  *)
(* again; a change before Register is not noticed; the rules of a role are *)
(* tried in the order of their regular expressions, where the one of "*"   *)
(* comes before the lower case callsigns; a path that is not one of the    *)
(* service is allowed to everyone with a context; the test token of an     *)
(* earlier configuration stays.                                            *)
(***************************************************************************)
EXTENDS Integers, SequencesExt

CONSTANTS Clients,
          Tokens,         \* [signature, type, url]: signature is "empty", "none", "bad" or "good"
          Calls,          \* of interest: <<callsign, method>>
          AclFiles,       \* what the file of the plugin may hold
          Folders,        \* what the directory may hold: sequences of such files
          OriginsOf,      \* pattern of an assignment -> origins that its regex matches
          CallsignsOf,    \* pattern of a callsign -> callsigns that its regex matches
          MethodsOf,      \* pattern of a method -> methods that its regex matches
          PatternOrder,   \* patterns of callsigns, in the order of their regexes
          TestToken,      \* the configured one
          TestingMode     \* SECURITY_TESTING_MODE

VARIABLES
  phase,     \* of the plugin: "off", "starting", "on" or "stopping"
  aclFile,   \* what is on disk, or <<>>
  folder,    \* what is in the directory of the DAC
  acl, dac,  \* the two lists
  reading,   \* Updated runs
  loading,   \* files that it has still to load
  changed,   \* the monitor has yet to tell of a change
  context,   \* client -> its SecurityContext, or None
  aclRead,   \* history: the file that the last Initialize read
  unchanged  \* history: readings of the directory, begun and ended since it changed;
             \* -1 while there is one under way that began before

agentVars == <<phase, aclFile, folder, acl, dac, reading, loading, changed, context, aclRead, unchanged>>

None == <<>>

\* What is in a file: a rule and a role block or allow by default.
Groups == [url : DOMAIN OriginsOf, role : STRING]

WellFormed(file) ==
  /\ file = [assign |-> file.assign, roles |-> file.roles]
  /\ file.assign \in Seq(Groups)
  /\ file.roles = [r \in DOMAIN file.roles |-> file.roles[r]]
  /\ \A r \in DOMAIN file.roles :
       \A p \in DOMAIN file.roles[r].plugins : file.roles[r].plugins[p].default \in {"allowed", "blocked"}

ASSUME FilesAssumption ==
  /\ \A file \in AclFiles : WellFormed(file)
  /\ \A files \in Folders : files \in Seq(ToSet(files)) /\ \A file \in ToSet(files) : WellFormed(file)
  /\ PatternOrder \in Seq(DOMAIN CallsignsOf)
  /\ \A call \in Calls : call = <<call[1], call[2]>>

EmptyList == [urlMap |-> <<>>, filterMap |-> <<>>, unusedRoles |-> <<>>, undefinedURLS |-> <<>>]

-----------------------------------------------------------------------------
(* Deciding.  A rule is [default, methods], a role is [default, plugins]   *)
(* with a rule for each pattern of callsigns, a file is [assign, roles].   *)

\* A URL is a sequence of its parts and separators.
Before(url, last) == {i \in 1 .. Len(url) : i <= last}

\* Without "//" the search for the path begins behind the first character.
GetUrlOrigin(url) ==
  LET double   == {i \in Before(url, Len(url)) : url[i] = "//"}
      start    == IF double = {} THEN 1 ELSE Min(double)
      slashes  == {i \in start + 1 .. Len(url) : url[i] \in {"/", "//"}}
      path     == Min(slashes \cup {Len(url) + 1})
      fragment == {i \in Before(url, path) : url[i] = "#"}
      end      == IF fragment = {} THEN path ELSE Max(fragment)
      query    == {i \in Before(url, end) : url[i] = "?"}
  IN  SubSeq(url, 1, (IF query = {} THEN end ELSE Max(query)) - 1)

\* Filter::Plugin::Allowed: the methods are the exceptions to the default.
PluginAllowed(rule, method) ==
  LET found == \E m \in rule.methods : method \in MethodsOf[m]
  IN  (rule.default = "blocked") <=> found

\* Filter::Allowed: the first pattern that fits decides.
FilterAllowed(role, callsign, method) ==
  LET fits == {i \in 1 .. Len(PatternOrder) : /\ PatternOrder[i] \in DOMAIN role.plugins
                                              /\ callsign \in CallsignsOf[PatternOrder[i]]}
  IN  IF fits = {} THEN role.default = "allowed" ELSE PluginAllowed(role.plugins[PatternOrder[Min(fits)]], method)

\* The first assignment that fits decides.
FilterMapFromURL(list, url) ==
  {i \in 1 .. Len(list.urlMap) : GetUrlOrigin(url) \in OriginsOf[list.urlMap[i].url]}

Allowed(list, url, callsign, method) ==
  LET found == FilterMapFromURL(list, url)
  IN  found # {} /\ FilterAllowed(list.filterMap[list.urlMap[Min(found)].role], callsign, method)

-----------------------------------------------------------------------------
(* Loading.                                                                *)

\* Roles that are already known keep their filter.
AddRoles(list, file) ==
  LET known == DOMAIN list.filterMap
  IN  [list EXCEPT !.unusedRoles = SetToSeq(DOMAIN file.roles),
                   !.filterMap = [r \in known \cup DOMAIN file.roles |->
                                    IF r \in known THEN list.filterMap[r] ELSE file.roles[r]]]

\* Mutant: what is known already is added again.
AssignAgain(list, group) ==
  IF group.role \notin DOMAIN list.filterMap
  THEN [list EXCEPT !.undefinedURLS = IF Contains(@, group.role) THEN @ ELSE <<group.role>> \o @]
  ELSE [list EXCEPT !.urlMap = Append(@, group), !.unusedRoles = Remove(@, group.role)]

Assign(list, group) ==
  IF group.role \notin DOMAIN list.filterMap
  THEN [list EXCEPT !.undefinedURLS = IF Contains(@, group.role) THEN @ ELSE <<group.role>> \o @]
  ELSE [list EXCEPT !.urlMap = IF Contains(@, group) THEN @ ELSE Append(@, group),
                    !.unusedRoles = Remove(@, group.role)]

\* Only the unused roles are started afresh.
Load(list, file) == FoldLeft(Assign, AddRoles(list, file), file.assign)

\* Mutant: the roles stay.
ClearKeepsRoles(list) == [EmptyList EXCEPT !.filterMap = list.filterMap]

Clear(list) == EmptyList

-----------------------------------------------------------------------------
(* The plugin.                                                             *)

Initialize ==
  /\ phase = "off"
  /\ phase' = "starting"
  /\ acl' = IF aclFile = None THEN acl ELSE Load(acl, aclFile)
  /\ aclRead' = aclFile
  /\ reading' = TRUE /\ loading' = folder
  /\ UNCHANGED <<aclFile, folder, dac, changed, context, unchanged>>

\* The directory has been read, from here on the monitor tells of changes.
Register ==
  /\ phase = "starting" /\ ~reading
  /\ phase' = "on"
  /\ changed' = FALSE
  /\ UNCHANGED <<aclFile, folder, acl, dac, reading, loading, context, aclRead, unchanged>>

\* DirectoryCallback::Updated, by the thread of the monitor.
Updated ==
  /\ phase \in {"on", "stopping"} /\ changed /\ ~reading
  /\ reading' = TRUE /\ loading' = folder
  /\ changed' = FALSE
  /\ UNCHANGED <<phase, aclFile, folder, acl, dac, context, aclRead, unchanged>>

UpdatedFile ==
  /\ reading
  /\ IF loading = <<>>
     THEN /\ reading' = FALSE /\ unchanged' = IF unchanged < 2 THEN unchanged + 1 ELSE 2
          /\ UNCHANGED <<dac, loading>>
     ELSE /\ dac' = Load(dac, Head(loading)) /\ loading' = Tail(loading)
          /\ UNCHANGED <<reading, unchanged>>
  /\ UNCHANGED <<phase, aclFile, folder, acl, changed, context, aclRead>>

\* Up to the monitor, which it may have to wait for.
Deinitialize ==
  /\ phase = "on"
  /\ phase' = "stopping"
  /\ acl' = Clear(acl) /\ aclRead' = None
  /\ UNCHANGED <<aclFile, folder, dac, reading, loading, changed, context, unchanged>>

\* The monitor does not let go of a callback that it is calling.
Unregister ==
  /\ phase = "stopping" /\ ~reading
  /\ phase' = "off"
  /\ dac' = Clear(dac)
  /\ changed' = FALSE /\ unchanged' = 0
  /\ UNCHANGED <<aclFile, folder, acl, reading, loading, context, aclRead>>

\* What a reading under way may still find: the file that it has parsed, as it
\* was, and those from some place on, as they are.
StillFound(files) ==
  LET rests == {SubSeq(files, i, Len(files)) : i \in 1 .. Len(files) + 1}
  IN  rests \cup IF loading = <<>> THEN {} ELSE {<<Head(loading)>> \o rest : rest \in rests}

\* Somebody writes the files, also while they are read.  A change may leave
\* them what they were.
Written ==
  /\ \/ aclFile' \in AclFiles \cup {None} /\ UNCHANGED <<folder, loading, changed, unchanged>>
     \/ /\ folder' \in Folders /\ UNCHANGED aclFile
        /\ loading' \in IF reading /\ folder' # folder THEN StillFound(folder') ELSE {loading}
        /\ unchanged' = IF folder' = folder THEN unchanged ELSE IF reading THEN -1 ELSE 0
        /\ changed' = (phase \in {"on", "stopping"})
  /\ UNCHANGED <<phase, acl, dac, reading, context, aclRead>>

-----------------------------------------------------------------------------
(* Tokens.                                                                 *)

PayloadLength(token) == token.signature \notin {"empty", "none"}

Decode(token) == PayloadLength(token) /\ token.signature = "good"

\* Payload that is no JSON is a URL.
SecurityContext(token) == [list |-> IF token.type = "DAC" THEN "dac" ELSE "acl", url |-> token.url]

TestURL == <<"https", "//", "test.url.com">>

OfficerOf(token) ==
  IF token.signature = "empty" THEN None
  ELSE IF token = TestToken THEN (IF TestingMode THEN [list |-> "acl", url |-> TestURL] ELSE None)
  ELSE IF Decode(token) THEN SecurityContext(token) ELSE None

\* Validate, and the verb GET of Process with "Valid" in its path.
Valid(token) == Decode(token)

Elsewhere == <<>>

\* A message, or a request for <<callsign, method>>; a path that is not one
\* of the service names no plugin.
ContextAllowed(c, call) ==
  \/ call = Elsewhere
  \/ call # Elsewhere /\ Allowed(IF c.list = "acl" THEN acl ELSE dac, c.url, call[1], call[2])

Officer(client, token) ==
  /\ phase = "on"
  /\ context' = [context EXCEPT ![client] = OfficerOf(token)]
  /\ UNCHANGED <<phase, aclFile, folder, acl, dac, reading, loading, changed, aclRead, unchanged>>

-----------------------------------------------------------------------------
Init ==
  /\ phase = "off" /\ reading = FALSE /\ loading = <<>> /\ changed = FALSE /\ unchanged = 0
  /\ aclFile = None /\ folder = <<>>
  /\ acl = EmptyList /\ dac = EmptyList
  /\ context = [c \in Clients |-> None]
  /\ aclRead = None

Next ==
  \/ Initialize \/ Register \/ Updated \/ UpdatedFile \/ Deinitialize \/ Unregister \/ Written
  \/ \E c \in Clients, t \in Tokens : Officer(c, t)

Spec == Init /\ [][Next]_agentVars

-----------------------------------------------------------------------------
(* Properties.                                                             *)

First(s, Test(_)) == CHOOSE i \in 1 .. Len(s) : Test(s[i]) /\ \A j \in 1 .. i - 1 : ~Test(s[j])

\* What a file says, read on its own: the first assignment to a role that it
\* has and that fits the origin, the first rule of that role that fits.
Says(file, origin, callsign, method) ==
  LET Assigned(g) == g.role \in DOMAIN file.roles /\ origin \in OriginsOf[g.url]
      role        == file.roles[file.assign[First(file.assign, Assigned)].role]
      Fits(p)     == p \in DOMAIN role.plugins /\ callsign \in CallsignsOf[p]
      rule        == role.plugins[PatternOrder[First(PatternOrder, Fits)]]
      Named       == {m \in rule.methods : method \in MethodsOf[m]}
  IN  /\ file # None
      /\ \E i \in 1 .. Len(file.assign) : Assigned(file.assign[i])
      /\ IF \E i \in 1 .. Len(PatternOrder) : Fits(PatternOrder[i])
         THEN IF Named = {} THEN rule.default = "allowed" ELSE rule.default = "blocked"
         ELSE role.default = "allowed"

\* However often the plugin was started and stopped and whatever its files
\* were, each context decides by the file that the last start has read, and
\* one that has outlived the plugin allows no call to a plugin.
DecidesByTheFile ==
  \A c \in Clients : context[c] # None =>
    \A call \in Calls :
      LET allowed == ContextAllowed(context[c], call)
      IN  /\ context[c].list = "acl" =>
               (allowed <=> Says(aclRead, GetUrlOrigin(context[c].url), call[1], call[2]))
          /\ context[c].list = "dac" /\ phase = "off" => ~allowed

\* A directory that has been read twice since it was changed has told all it
\* has to tell: reading it again changes no rule and adds no entry.
ReadingSettles ==
  [][unchanged = 2 /\ reading /\ phase' # "off" =>
       dac' = [dac EXCEPT !.unusedRoles = dac'.unusedRoles]]_agentVars
=============================================================================
