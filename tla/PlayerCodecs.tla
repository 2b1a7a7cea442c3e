---------------------------- MODULE PlayerCodecs ----------------------------
(***************************************************************************)
(* The codecs that PlayerInfo lists: those that an element of GStreamer    *)
(* decodes, or that a parser turns into something that one decodes.  What  *)
(* is installed is a registry; a codec stands for one or more formats.     *)
(***************************************************************************)
EXTENDS Naturals, Sequences, FiniteSets, SequencesExt

CONSTANTS Registries,   \* [decoders, parsers]: sets of elements
          Caps          \* the codecs with their formats, in the order of the map

VARIABLES registry, next, codecs

codecVars == <<registry, next, codecs>>

Init == registry \in Registries /\ next = 1 /\ codecs = <<>>

\* The elements with a sink for one of the formats.
GstRegistryGetElementForMediaType(elements, formats) == {e \in elements : e.sinks \cap formats # {}}

\* Every source pad of every parser that a decoder can follow.
Parsed(formats) ==
  UNION {{p} \X {k \in DOMAIN p.sources : GstRegistryGetElementForMediaType(registry.decoders, p.sources[k]) # {}} :
           p \in GstRegistryGetElementForMediaType(registry.parsers, formats)}

\* How often the codec is pushed to the list: a parser may push it again.
Times(formats) ==
  IF GstRegistryGetElementForMediaType(registry.decoders, formats) # {} THEN 1
  ELSE Cardinality(Parsed(formats))

GstRegistryCheckElementsForMediaTypes ==
  /\ next <= Len(Caps) /\ next' = next + 1
  /\ codecs' = codecs \o [k \in 1 .. Times(Caps[next].formats) |-> Caps[next].codec]
  /\ UNCHANGED registry

Next == GstRegistryCheckElementsForMediaTypes

-----------------------------------------------------------------------------
(* Properties.                                                             *)

\* One of the formats gets to a decoder, in no more than one step.
Playable(formats) ==
  \E d \in registry.decoders :
    \/ \E f \in formats : f \in d.sinks
    \/ \E p \in registry.parsers : (\E f \in formats : f \in p.sinks)
         /\ \E s \in ToSet(p.sources) : s \cap d.sinks # {}

\* The codecs that are listed are those that can be played: a parser with
\* nothing behind it lists nothing, a decoder without a parser is enough.
CodecsArePlayable ==
  ToSet(codecs) = {Caps[i].codec : i \in {j \in 1 .. next - 1 : Playable(Caps[j].formats)}}
=============================================================================
