---------------------------- MODULE OCDMSystems ----------------------------
(***************************************************************************)
(* The DRM systems of OCDM: the libraries that are found, the designators  *)
(* that the configuration gives them, and what clients are offered.  A job *)
(* loads them while the plugin may already be on its way out.              *)
(*                                                                         *)
(* External: the libraries, each with a factory; the communicator.         *)
(*                                                                         *)
(* Not so, and not claimed: a system all whose designators are taken, or   *)
(* that has none, is initialized but never deinitialized; the factories are*)
(* deinitialized before the communicator is closed, so that sessions go on *)
(* for a while; the black list of one kind has no effect without one of the*)
(* other kind; nothing keeps Systems from reading the list of systems while*)
(* the job extends it; Sessions tells the designators.                     *)
(***************************************************************************)
EXTENDS Naturals, SequencesExt

CONSTANTS Libraries,     \* names of the factories, in the order of the directory
          SystemConfigs, \* sequences of [name, has, designators, codecs, types], of the entries
                         \* with a name: "has" tells which of the three sets is there; the
                         \* last two are black lists
          Contents,      \* [type, codecs], where type is "" if it is not understood
          Extended       \* names of the factories whose systems have IMediaKeysExt

VARIABLES
  phase,             \* "none", "queued" (the job), "loaded" (it has made the lists),
                     \* "listens", "deaf" (the communicator failed), "stopping", "gone"
  configured,        \* the configuration
  loaded,            \* _keySystems, the names of _systemLibraries
  systemToFactory,   \* designator -> name
  codecs, types,     \* _systemBlacklisted..Regexps: name -> what is blocked
  initialized,       \* name -> calls of Initialize of its factory
  deinitialized,     \* name -> calls of Deinitialize
  decryption         \* the subsystem DECRYPTION is set

systemVars == <<phase, configured, loaded, systemToFactory, codecs, types,
                initialized, deinitialized, decryption>>

Names == ToSet(Libraries)

-----------------------------------------------------------------------------
(* InitializeAsync.                                                        *)

\* insert keeps what is there.
Insert(map, e) ==
  [k \in DOMAIN map \cup e.keys |-> IF k \in DOMAIN map THEN map[k] ELSE e.value]

\* A map after the loop over the configuration, of which each entry inserts keys.
Inserted(KeysOf(_), ValueOf(_)) ==
  FoldLeft(Insert, <<>>, [i \in 1 .. Len(configured) |->
                            [keys |-> KeysOf(configured[i]), value |-> ValueOf(configured[i])]])

\* For each entry that has designators: those that are free are its own.
Designated(libraries) ==
  Inserted(LAMBDA s : IF s.name \in ToSet(libraries) /\ "designators" \in s.has
                      THEN s.designators \ {""} ELSE {},
           LAMBDA s : s.name)

Initializations(libraries, name) ==
  IF name \in ToSet(libraries)
  THEN Cardinality({i \in 1 .. Len(configured) : /\ configured[i].name = name
                                                 /\ "designators" \in configured[i].has})
  ELSE 0

\* FillBlacklist, for entries that have the list.
Blacklist(kind) == Inserted(LAMBDA s : IF kind \in s.has THEN {s.name} ELSE {},
                            LAMBDA s : s[kind] \ {""})

InitializeAsync ==
  /\ phase = "queued"
  /\ phase' = "loaded"
  /\ \E libraries \in {Libraries, Tail(Libraries)} :
       /\ loaded' = libraries
       /\ systemToFactory' = Designated(libraries)
       /\ initialized' = [n \in Names |-> Initializations(libraries, n)]
  /\ codecs' = Blacklist("codecs")
  /\ types' = Blacklist("types")
  /\ UNCHANGED <<configured, deinitialized, decryption>>

\* The communicator opens, or it does not.
Listens ==
  /\ phase = "loaded"
  /\ \/ phase' = "listens" /\ decryption' = TRUE
     \/ phase' = "deaf" /\ UNCHANGED decryption
  /\ UNCHANGED <<configured, loaded, systemToFactory, codecs, types, initialized, deinitialized>>

-----------------------------------------------------------------------------
(* What clients are told.                                                  *)

\* Only if there is a black list of each kind.
Blocked(name, content) ==
  /\ codecs # <<>> /\ types # <<>> /\ content.type # ""
  /\ \/ name \in DOMAIN types /\ content.type \in types[name]
     \/ name \in DOMAIN codecs /\ content.codecs \cap codecs[name] # {}

IsTypeSupported(designator, content) ==
  /\ designator \in DOMAIN systemToFactory
  /\ ~Blocked(systemToFactory[designator], content)

\* The factory that serves a designator, if any.
KeySystem(designator) ==
  IF designator \in DOMAIN systemToFactory THEN {systemToFactory[designator]} ELSE {}

\* The calls of IAccessorOCDM that are for a system as such, go to it if it
\* has the extension; otherwise they are answered with a default.
Forwarded(designator) == KeySystem(designator) \cap Extended

Systems == loaded

Designators(name) == {d \in DOMAIN systemToFactory : systemToFactory[d] = name}

\* OCDM::Process and get_drms: each system with its designators.
Drms == [i \in 1 .. Len(Systems) |-> [name |-> Systems[i], designators |-> Designators(Systems[i])]]

-----------------------------------------------------------------------------
(* Initialize and Deinitialize.                                            *)

Initialize ==
  /\ phase = "none"
  /\ phase' = "queued"
  /\ UNCHANGED <<configured, loaded, systemToFactory, codecs, types, initialized,
                 deinitialized, decryption>>

\* Mutant: once for each designator.
OncePerDesignator(name) == Cardinality(Designators(name))

Deinitializations(name) == IF Designators(name) = {} THEN 0 ELSE 1

\* The job is taken back, or waited for if it runs.
Deinitialize ==
  /\ phase \in {"queued", "listens", "deaf"}
  /\ phase' = "stopping"
  /\ deinitialized' = [n \in Names |-> deinitialized[n] + Deinitializations(n)]
  /\ UNCHANGED <<configured, loaded, systemToFactory, codecs, types, initialized, decryption>>

\* The libraries are released, the last that was loaded first.
Released ==
  /\ phase = "stopping"
  /\ phase' = "gone"
  /\ UNCHANGED <<configured, loaded, systemToFactory, codecs, types, initialized,
                 deinitialized, decryption>>

-----------------------------------------------------------------------------
Init ==
  /\ phase = "none"
  /\ configured \in SystemConfigs
  /\ loaded = <<>> /\ systemToFactory = <<>> /\ codecs = <<>> /\ types = <<>>
  /\ initialized = [n \in Names |-> 0] /\ deinitialized = [n \in Names |-> 0]
  /\ decryption = FALSE

Next == Initialize \/ InitializeAsync \/ Listens \/ Deinitialize \/ Released

Spec == Init /\ [][Next]_systemVars

-----------------------------------------------------------------------------
\* While clients can reach it, a designator is supported for a content exactly
\* if it is one that an entry with a factory gives, and neither of the black
\* lists that were first for the system of the first such entry blocks the
\* content; its factory was initialized and not yet deinitialized, and in the
\* end it is deinitialized once, however many designators it has
\* (InitializeAsync, IsTypeSupported, Deinitialize).
OfferedSystemsWork ==
  LET Serves(d, i) == /\ configured[i].name \in ToSet(loaded)
                      /\ "designators" \in configured[i].has
                      /\ d \in configured[i].designators \ {""}
      Lists(name, kind, i) == configured[i].name = name /\ kind \in configured[i].has
      Blocks(name, kind, values) ==
        \E i \in 1 .. Len(configured) :
          /\ Lists(name, kind, i) /\ \A j \in 1 .. i - 1 : ~Lists(name, kind, j)
          /\ values \cap (configured[i][kind] \ {""}) # {}
      Both == \A kind \in {"types", "codecs"} : \E i \in 1 .. Len(configured) : kind \in configured[i].has
      Offered == UNION {configured[i].designators : i \in 1 .. Len(configured)}
  IN  /\ phase = "listens" =>
           /\ \A d \in Offered, c \in Contents :
                IsTypeSupported(d, c) <=>
                  \E i \in 1 .. Len(configured) :
                    /\ Serves(d, i) /\ \A j \in 1 .. i - 1 : ~Serves(d, j)
                    /\ \/ c.type = "" \/ ~Both
                       \/ /\ ~Blocks(configured[i].name, "types", {c.type})
                          /\ ~Blocks(configured[i].name, "codecs", c.codecs)
           /\ \A i \in 1 .. Len(Drms) : Drms[i].designators # {} =>
                initialized[Drms[i].name] > 0 /\ deinitialized[Drms[i].name] = 0
           /\ \A d \in Offered : \A n \in Forwarded(d) : d \in Designators(n) /\ initialized[n] > 0
      /\ phase \in {"stopping", "gone"} =>
           \A n \in Names :
             /\ deinitialized[n] > 0 => initialized[n] > 0
             /\ deinitialized[n] = Min({1, Cardinality(Designators(n))})
=============================================================================
