--------------------------- MODULE VersionedRegister ---------------------------
(***************************************************************************)
(* What the writers of hive_mind expect of one record of the control       *)
(* collection (docs/spec/contracts/control-records.md): every write takes  *)
(* effect at one instant, once, and raises control_version by one; a       *)
(* writer is told "committed" only of a write that took effect.            *)
(***************************************************************************)
EXTENDS Integers

CONSTANTS Writes  \* the identities of all writes

VARIABLES version, value, applied, acked

vars == <<version, value, applied, acked>>

TakeEffect(w) ==
  /\ w \notin applied
  /\ version' = version + 1
  /\ value' = w
  /\ applied' = applied \union {w}
  /\ UNCHANGED acked

Acknowledge(w) ==
  /\ w \in applied
  /\ acked' = acked \union {w}
  /\ UNCHANGED <<version, value, applied>>

Init == version \in Nat /\ applied = {} /\ acked = {}

Next == \E w \in Writes : TakeEffect(w) \/ Acknowledge(w)

Spec == Init /\ [][Next]_vars
===============================================================================
