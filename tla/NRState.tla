------------------------------ MODULE NRState -------------------------------
(***************************************************************************)
(* The replicated object (types.rs is not part of the sources; section 4.1 *)
(* of the spec): a deterministic state.  The state is the sequence of      *)
(* update ops applied to it, an update returns the number of ops applied   *)
(* before it, and a read returns the number applied so far, so a replica   *)
(* that misses, repeats or reorders an entry answers differently.          *)
(***************************************************************************)
EXTENDS Naturals, Sequences

NRStateInit == <<>>
NRUpdate(s, op) == [state |-> Append(s, op), ret |-> Len(s)]
NRRead(s, op) == Len(s)

=============================================================================
