--------------------------- MODULE PresetLibrary ---------------------------
(***************************************************************************)
(* What the presets page promises: presets that are added under an unused  *)
(* id, changed, and removed, and a default that is one of them or none,    *)
(* and that cannot be removed while it is the default.  Users who change   *)
(* one preset at the same moment contend for it: what becomes of that      *)
(* preset, and whether it is the default, is then left open.               *)
(***************************************************************************)
CONSTANTS
    Ids,         \* the ids a preset may have
    Overrides,   \* what a preset may hold
    Empty,       \* the overrides of a new preset
    None         \* no preset, no default

VARIABLES
    presets,     \* the overrides of each preset, None for an id not in use
    default,     \* the preset that is selected for a new conversion
    contended    \* the presets several users have changed at once, until one settles it

vars == <<presets, default, contended>>

Init ==
    /\ presets = [i \in Ids |-> None]
    /\ default = None
    /\ contended = {}

Present(i) == presets[i] # None

\* One user's act on a preset settles it.
Settle(i) == contended' = contended \ {i}

Add(i) ==
    /\ ~Present(i)
    /\ presets' = [presets EXCEPT ![i] = Empty]
    /\ Settle(i)
    /\ UNCHANGED default

Update(i, o) ==
    /\ Present(i)
    /\ presets' = [presets EXCEPT ![i] = o]
    /\ Settle(i)
    /\ UNCHANGED default

Remove(i) ==
    /\ default # i
    /\ presets' = [presets EXCEPT ![i] = None]
    /\ Settle(i)
    /\ UNCHANGED default

Choose(i) ==
    /\ Present(i)
    /\ default' = i
    /\ Settle(i)
    /\ UNCHANGED presets

Clear == default' = None /\ UNCHANGED <<presets, contended>>

\* An act on a preset another has just changed: it is added, changed or removed
\* whatever it was, or chosen whether it is there or not.
Contend(i) ==
    /\ contended' = contended \cup {i}
    /\ \/ /\ \E o \in Overrides \cup {None} : presets' = [presets EXCEPT ![i] = o]
          /\ UNCHANGED default
       \/ default' = i /\ UNCHANGED presets

Next ==
    \/ Clear
    \/ \E i \in Ids :
         \/ Add(i) \/ Remove(i) \/ Choose(i) \/ Contend(i)
         \/ \E o \in Overrides : Update(i, o)

Spec == Init /\ [][Next]_vars
=============================================================================
