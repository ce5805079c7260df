--------------------------- MODULE SpeedRegister ---------------------------
(***************************************************************************)
(* What the chassis promises its host, without the semaphore, the flags of *)
(* its task or the CAN bus: a register.  A command overwrites the previous *)
(* one.  The motors are driven one at a time, in passes; a value other     *)
(* than the current command is driven only while that command is still     *)
(* waiting for a pass of its own, and a pass with no command waiting       *)
(* leaves every motor at the current command.                              *)
(***************************************************************************)
CONSTANTS
  Motor,
  Value,
  Rest            \* the value commanded, and driven, at the start

VARIABLES
  cmd,            \* the last command
  waiting,        \* it has been given since the last pass began
  driving,        \* a pass is in progress
  out             \* what each motor was last told

register == <<cmd, waiting, driving, out>>

Init ==
  /\ cmd = Rest
  /\ waiting = FALSE
  /\ driving = FALSE
  /\ out = [m \in Motor |-> Rest]

Command(v) ==
  /\ cmd' = v
  /\ waiting' = TRUE
  /\ UNCHANGED <<driving, out>>

(* A pass serves the command that waits; it may also repeat the current    *)
(* one, and then leaves a command that has just come in waiting.           *)
Begin ==
  /\ ~driving
  /\ driving' = TRUE
  /\ waiting' \in {waiting, FALSE}
  /\ UNCHANGED <<cmd, out>>

Drive(m, v) ==
  /\ driving
  /\ waiting \/ v = cmd
  /\ out' = [out EXCEPT ![m] = v]
  /\ \/ UNCHANGED driving
     \/ /\ driving' = FALSE
        /\ waiting \/ \A k \in Motor : out'[k] = cmd
  /\ UNCHANGED <<cmd, waiting>>

Next ==
  \/ \E v \in Value : Command(v)
  \/ Begin
  \/ \E m \in Motor, v \in Value : Drive(m, v)

Spec == Init /\ [][Next]_register

============================================================================
