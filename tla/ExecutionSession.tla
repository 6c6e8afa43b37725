--------------------------- MODULE ExecutionSession ---------------------------
(***************************************************************************)
(* What the ExecutionSession port promises whoever consumes a session, with*)
(* no provider, no generator and no tasks: one ordered stream within the   *)
(* limits of the request, that says first that it has started, then what   *)
(* goes on, then which artifacts there are, and last that it is over; a    *)
(* result that comes with the last event, counts the others and never      *)
(* changes; and cancellations, of which the first is kept.                 *)
(***************************************************************************)
EXTENDS Naturals, Sequences

CONSTANTS
  MaxEvents, MaxArtifacts,   \* the ResourceLimits of the request
  TerminalOutcome,           \* how an execution may end
  Reasons,                   \* what cancellations may give as their reason
  None                       \* no result, no reason

VARIABLES
  events,   \* the kinds of the events delivered, in order
  result,   \* the ExecutionResult, or None
  reason    \* the reason of the first cancellation, or None

vars == <<events, result, reason>>

Init == events = <<>> /\ result = None /\ reason = None

\* The last n events, and no others, are artifacts.
Announced(n) ==
  \A i \in DOMAIN events : events[i] = "artifact" <=> i > Len(events) - n

\* An event that leaves room for the terminal one.
Emit(kind) ==
  /\ result = None /\ Len(events) + 2 <= MaxEvents
  /\ kind = "started" <=> events = <<>>
  /\ kind = "progress" => Announced(0)
  /\ events' = Append(events, kind)
  /\ UNCHANGED <<result, reason>>

Cancel ==
  /\ result = None /\ reason = None
  /\ reason' \in Reasons
  /\ UNCHANGED <<events, result>>

\* The terminal event and the result, which lists the artifacts announced.
Terminate(outcome, artifacts) ==
  /\ result = None /\ events # <<>> /\ Len(events) + 1 <= MaxEvents
  /\ Announced(artifacts)
  /\ outcome = "cancelled" => reason # None
  /\ result' = [ outcome |-> outcome, events_emitted |-> Len(events) + 1,
                 artifacts |-> artifacts,
                 failure |-> IF outcome = "cancelled" THEN reason ELSE None ]
  /\ events' = Append(events, "terminal")
  /\ UNCHANGED reason

Next ==
  \/ \E kind \in {"started", "progress", "artifact"} : Emit(kind)
  \/ Cancel
  \/ \E outcome \in TerminalOutcome, n \in 0..MaxArtifacts : Terminate(outcome, n)

Spec == Init /\ [][Next]_vars

=============================================================================
