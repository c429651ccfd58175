----------------------------- MODULE WriteOnce -----------------------------
(***************************************************************************)
(* The contract of submitTrafficWrite (internal/web/service/               *)
(* traffic_writer.go:142) as its callers see it: a write is applied exactly *)
(* once and then answered, or refused without having been applied.         *)
(***************************************************************************)
CONSTANT Client

VARIABLE phase

Move(c, from, to) ==
  /\ phase[c] = from
  /\ phase' = [phase EXCEPT ![c] = to]

Init == phase = [c \in Client |-> "idle"]

Ask(c) == Move(c, "idle", "asked")
Apply(c) == Move(c, "asked", "applied")
Answer(c) == Move(c, "applied", "ok")
Refuse(c) == Move(c, "asked", "refused")
Return(c) == Move(c, "ok", "idle") \/ Move(c, "refused", "idle")

\* A write on the caller's own goroutine is applied and answered in one step.
ApplyInline(c) == Move(c, "asked", "ok")

Next == \E c \in Client :
          \/ Ask(c) \/ Apply(c) \/ Answer(c) \/ ApplyInline(c)
          \/ Refuse(c) \/ Return(c)

Spec == Init /\ [][Next]_phase
=============================================================================
