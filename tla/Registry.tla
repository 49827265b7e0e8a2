------------------------------ MODULE Registry ------------------------------
(***************************************************************************)
(* The registry of processes or threads (registry.hpp): three maps to the  *)
(* same entries, by the host's ID, by the ID in the client's namespace and *)
(* by an eternal ID that is never given out twice.                         *)
(*                                                                         *)
(* Each operation is one action: it runs under the registry's lock.  An    *)
(* entry is registered once, by the first call of a client (absent ones    *)
(* only) or, for the server's own, with replacement, and unregistered when *)
(* it dies.  The two IDs of an entry have nothing to do with each other:   *)
(* the host uses either of them again on its own, and all of the server's  *)
(* own threads have the same host ID.                                      *)
(***************************************************************************)
EXTENDS Naturals

CONSTANTS Entry,        \* all the processes, or threads, there will be
          KernelEntry,  \* the server's own among them
          ID, NSID,     \* the two kinds of IDs
          IdOf, NsidOf  \* the IDs of each entry; the host may use one again

ASSUME EntryAssumption == KernelEntry \subseteq Entry
ASSUME IdAssumption == IdOf \in [Entry -> ID] /\ NsidOf \in [Entry -> NSID]

VARIABLES map, nsmap, emap,  \* functions from the IDs in use to entries
          eternalCounter,
          eternalID,         \* what _setEternalID stored in each registered entry
          born,              \* the entries that have been created
          dead               \* the entries that have been told of their death

registryVars == <<map, nsmap, emap, eternalCounter, eternalID, born, dead>>

Empty == [x \in {} |-> x]
Extended(f, x, e) == [y \in DOMAIN f \cup {x} |-> IF y = x THEN e ELSE f[y]]
Erased(f, x) == [y \in DOMAIN f \ {x} |-> f[y]]
IsEntry(f, x, e) == x \in DOMAIN f /\ f[x] = e

RegistryInit ==
    /\ map = Empty /\ nsmap = Empty /\ emap = Empty
    /\ eternalCounter = 0 /\ eternalID = Empty
    /\ born = {} /\ dead = {}

(* A new eternal ID, and the entry in all three maps. *)
Add(e) ==
    /\ eternalID' = Extended(eternalID, e, eternalCounter)
    /\ eternalCounter' = eternalCounter + 1
    /\ map' = Extended(map, IdOf[e], e)
    /\ nsmap' = Extended(nsmap, NsidOf[e], e)
    /\ emap' = Extended(emap, eternalCounter, e)

(* A client's call: its entry is looked up, and made when there is none.  One that
   is made for an ID in use again is the new owner's. *)
RegisterIfAbsent(e) ==
    /\ e \in Entry \ (born \cup KernelEntry)
    /\ NsidOf[e] \notin DOMAIN nsmap
    /\ born' = born \cup {e}
    /\ Add(e)
    /\ UNCHANGED dead

(* registerEntry, which every caller asks to replace. *)
RegisterEntry(e) ==
    /\ e \in KernelEntry \ born
    /\ born' = born \cup {e}
    /\ Add(e)
    /\ UNCHANGED dead

(* notifyDead: the entry goes if it is the one registered under all its IDs, and
   stays in whatever map has it if it is not. *)
UnregisterEntryByIDs(e) ==  \* mutant: whatever is there under the IDs goes
    /\ e \in born \ dead
    /\ dead' = dead \cup {e}
    /\ IF IdOf[e] \in DOMAIN map /\ NsidOf[e] \in DOMAIN nsmap /\ eternalID[e] \in DOMAIN emap
       THEN /\ map' = Erased(map, IdOf[e])
            /\ nsmap' = Erased(nsmap, NsidOf[e])
            /\ emap' = Erased(emap, eternalID[e])
       ELSE UNCHANGED <<map, nsmap, emap>>
    /\ UNCHANGED <<eternalCounter, eternalID, born>>

UnregisterEntryUnknown(e) ==  \* mutant: the namespace's map is forgotten
    /\ e \in born \ dead
    /\ dead' = dead \cup {e}
    /\ IF /\ IsEntry(map, IdOf[e], e) /\ IsEntry(nsmap, NsidOf[e], e)
          /\ IsEntry(emap, eternalID[e], e)
       THEN map' = Erased(map, IdOf[e]) /\ emap' = Erased(emap, eternalID[e])
       ELSE UNCHANGED <<map, emap>>
    /\ UNCHANGED <<nsmap, eternalCounter, eternalID, born>>

UnregisterEntry(e) ==
    /\ e \in born \ dead
    /\ dead' = dead \cup {e}
    /\ IF /\ IsEntry(map, IdOf[e], e) /\ IsEntry(nsmap, NsidOf[e], e)
          /\ IsEntry(emap, eternalID[e], e)
       THEN /\ map' = Erased(map, IdOf[e])
            /\ nsmap' = Erased(nsmap, NsidOf[e])
            /\ emap' = Erased(emap, eternalID[e])
       ELSE UNCHANGED <<map, nsmap, emap>>
    /\ UNCHANGED <<eternalCounter, eternalID, born>>

RegistryNext ==
    \E e \in Entry : RegisterIfAbsent(e) \/ RegisterEntry(e) \/ UnregisterEntry(e)

RegistrySpec == RegistryInit /\ [][RegistryNext]_registryVars

----------------------------------------------------------------------------
(* Every map takes IDs of its own kind to entries that were made. *)
RegistryTypeOK ==
    /\ map \in [DOMAIN map -> born] /\ DOMAIN map \subseteq ID
    /\ nsmap \in [DOMAIN nsmap -> born] /\ DOMAIN nsmap \subseteq NSID
    /\ emap \in [DOMAIN emap -> born] /\ DOMAIN emap \subseteq Nat
    /\ eternalID \in [born -> Nat] /\ eternalCounter \in Nat
    /\ born \subseteq Entry /\ dead \subseteq born

(* An entry that came later has the ID of e now. *)
Overtakes(f, e, idOf) == eternalID[f] > eternalID[e] /\ idOf[f] = idOf[e]

(* An entry that lives is found under its eternal ID, under its ID in the namespace
   unless the server registered one of its own there, and under the host's ID unless a
   later entry came with it: whoever dies takes only what is its own, and a client that
   comes takes the namespace's ID of no client that lives (registerIfAbsent,
   unregisterEntry). *)
LiveIsFound ==
    \A e \in born \ dead :
        /\ IsEntry(emap, eternalID[e], e)
        /\ \/ IsEntry(nsmap, NsidOf[e], e)
           \/ \E k \in born \cap KernelEntry : Overtakes(k, e, NsidOf)
        /\ IsEntry(map, IdOf[e], e) \/ \E f \in born : Overtakes(f, e, IdOf)

(* An entry that died is still found only if one of its IDs was overtaken while it
   lived, and then only under the other ID and the eternal one: unregisterEntry, which
   compares all three, refused it. *)
OnlyTheOvertakenLinger ==
    \A e \in dead :
        /\ IsEntry(map, IdOf[e], e) => \E f \in born : Overtakes(f, e, NsidOf)
        /\ IsEntry(nsmap, NsidOf[e], e) => \E f \in born : Overtakes(f, e, IdOf)
        /\ IsEntry(emap, eternalID[e], e) =>
              \E f \in born : Overtakes(f, e, NsidOf) \/ Overtakes(f, e, IdOf)

=============================================================================
