--------------------------- MODULE TelnetOptions ---------------------------
(***************************************************************************)
(* Option negotiation of the telnet library, src/netutils/telnetc: the     *)
(* RFC 1143 state of one option at both ends of a connection, the requests *)
(* of the applications (telnet_negotiate) and the handling of what the     *)
(* other end sends (_negotiate).  TCP keeps the order of each direction.   *)
(* An end without the option in its table has it switched off for good.    *)
(***************************************************************************)
EXTENDS Naturals, Sequences

CONSTANT MaxRequests      \* requests each application makes

VARIABLES
  optState,   \* per end, the state of the option for us and for him
  offered,    \* per end, whether its table lists the option, for us and him
  wire,       \* per end, the commands it has sent that are under way
  requests,   \* per end, the requests made
  reversed    \* an end asked for DO again before its DONT was answered

optionVars == <<optState, offered, wire, requests, reversed>>

End   == {"A", "B"}
Side  == {"us", "him"}
Cmd   == {"WILL", "WONT", "DO", "DONT"}
QState == {"no", "yes", "wantno", "wantyes", "wantno_op", "wantyes_op"}

Peer(e) == IF e = "A" THEN "B" ELSE "A"

(* Which half of the receiver's state a command is about, which one of the *)
(* sender's, and the commands that turn a side on and off.                 *)
About(cmd)  == IF cmd \in {"WILL", "WONT"} THEN "him" ELSE "us"
Asks(cmd)   == IF cmd \in {"WILL", "WONT"} THEN "us" ELSE "him"
On(side)    == IF side = "us" THEN "WILL" ELSE "DO"
Off(side)   == IF side = "us" THEN "WONT" ELSE "DONT"

OptionsInit ==
  /\ optState = [e \in End |-> [s \in Side |-> "no"]]
  /\ offered \in [End -> [Side -> BOOLEAN]]
  /\ wire = [e \in End |-> <<>>]
  /\ requests = [e \in End |-> 0]
  /\ reversed = FALSE

----------------------------------------------------------------------------
(* What an end in state q for one side of the option becomes, and says.    *)

Becomes(q)   == [to |-> q, say |-> <<>>]
Says(q, cmd)   == [to |-> q, say |-> <<cmd>>]

(* telnet_negotiate: a request the state makes redundant is ignored, one   *)
(* that reverses a request under way is queued as its opposite.            *)
TurnOn(q, side) ==
  CASE q = "no"         -> Says("wantyes", On(side))
    [] q = "wantno"     -> Becomes("wantno_op")
    [] q = "wantyes_op" -> Becomes("wantyes")
    [] OTHER            -> Becomes(q)

TurnOff(q, side) ==
  CASE q = "yes"        -> Says("wantno", Off(side))
    [] q = "wantyes"    -> Becomes("wantyes_op")
    [] q = "wantno_op"  -> Becomes("wantno")
    [] OTHER            -> Becomes(q)

(* _negotiate, for WILL and DO.                                            *)
TurnedOn(q, side, supported) ==
  CASE q = "no" /\ supported  -> Says("yes", On(side))
    [] q = "no" /\ ~supported -> Says("no", Off(side))
    [] q = "wantno"           -> Becomes("no")
    [] q = "wantyes_op"       -> Says("wantno", Off(side))
    [] OTHER                  -> Becomes("yes")

TurnedOffEchoed(q, side) ==
  CASE q = "wantno_op" /\ side = "us"  -> Says("wantyes", On(side))
    [] q = "wantno_op" /\ side = "him" -> Becomes("wantyes")
    [] OTHER                           -> Says("no", Off(side))

TurnedOffSilently(q, side) ==
  CASE q = "yes"       -> Says("no", Off(side))
    [] q = "wantno_op" -> Becomes("wantyes")
    [] OTHER           -> Becomes("no")

(* For WONT and DONT.  The queued opposite is said for our own side only:  *)
(* after a WONT the state is WANTYES but no DO is sent.                    *)
TurnedOff(q, side) ==
  CASE q = "yes"       -> Says("no", Off(side))
    [] q = "wantno_op" /\ side = "us" -> Says("wantyes", On(side))
    [] q = "wantno_op" /\ side = "him" -> Becomes("wantyes")
    [] OTHER           -> Becomes("no")

----------------------------------------------------------------------------
TelnetNegotiate(e, cmd) ==
  LET side == Asks(cmd)
      step == IF cmd \in {"WILL", "DO"} THEN TurnOn(optState[e][side], side)
                                        ELSE TurnOff(optState[e][side], side)
  IN
  /\ requests[e] < MaxRequests
  /\ requests' = [requests EXCEPT ![e] = @ + 1]
  /\ optState' = [optState EXCEPT ![e][side] = step.to]
  /\ wire' = [wire EXCEPT ![e] = @ \o step.say]
  /\ reversed' = (reversed \/ (side = "him" /\ step.to = "wantno_op"))
  /\ UNCHANGED offered

Negotiate(e) ==
  LET cmd  == Head(wire[Peer(e)])
      side == About(cmd)
      q    == optState[e][side]
      step == IF cmd \in {"WILL", "DO"}
                THEN TurnedOn(q, side, offered[e][side])
                ELSE TurnedOff(q, side)
  IN
  /\ wire[Peer(e)] # <<>>
  /\ optState' = [optState EXCEPT ![e][side] = step.to]
  /\ wire' = [wire EXCEPT ![e] = @ \o step.say, ![Peer(e)] = Tail(@)]
  /\ UNCHANGED <<offered, requests, reversed>>

OptionsNext ==
  \E e \in End :
    \/ \E cmd \in Cmd : TelnetNegotiate(e, cmd)
    \/ Negotiate(e)

OptionsSpec == OptionsInit /\ [][OptionsNext]_optionVars

(* Both ends read what TCP delivers.                                       *)
OptionsFairness == \A e \in End : WF_optionVars(Negotiate(e))

----------------------------------------------------------------------------
(* Properties.                                                             *)

Quiet == \A e \in End : wire[e] = <<>>

(* Both ends agree whenever nothing is under way, however their requests   *)
(* crossed: each end takes the other's side of the option to be on exactly *)
(* when the other does, and neither still waits for an answer.  It holds   *)
(* as long as no end asks for DO again before its DONT is answered: then   *)
(* the WONT is answered by no DO, and the end waits for ever.              *)
EndsAgree ==
  Quiet /\ ~reversed =>
    \A e \in End : /\ optState[e].him \in {"no", "yes"}
                   /\ optState[e].him = optState[Peer(e)].us

(* No negotiation loop: once the applications have made their requests the *)
(* ends fall silent.                                                       *)
NoLoop == <>[]Quiet

============================================================================
