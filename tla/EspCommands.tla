---------------------------- MODULE EspCommands ----------------------------
(***************************************************************************)
(* Commands to the ESP8266 module, src/netutils/esp8266: a task, which     *)
(* holds the mutex of the driver, asks; the worker thread reads the lines  *)
(* of the module and leaves the last answer and the last other line for    *)
(* it.  Nothing in an answer says which command it is for.                 *)
(*                                                                         *)
(* An operation is a check with AT and then a command; lesp_send then      *)
(* gives the data and waits for SEND OK.  Commands may be ignored, and     *)
(* their answers late: later than the time a read waits for one, and later *)
(* than the silence that ends the flush before the next operation.         *)
(***************************************************************************)
EXTENDS Integers, Sequences

CONSTANTS
  MaxCommands,         \* operations
  MaxNotices      \* lines of the module that answer nothing

VARIABLES
  at,             \* where the task is
  operation,             \* "command" or "send"
  asking,         \* "AT", "command" or "data"
  asked,          \* the number of the last command
  ans, bufans,    \* g_lesp_state.ans, bufans
  told,           \* the number of a command reported done, 0 for none
  workerAns, workerBuf, sem,
  pending,        \* what the module has been sent
  lines,          \* what it has put on the serial line
  carried,        \* the commands that it has carried out
  begun, notices,
  overdue         \* history: the last flush ended before the answer to an
                  \* earlier command had come

task    == <<at, operation, asking, asked, ans, bufans, told, begun, overdue>>
worker  == <<workerAns, workerBuf, sem>>
module  == <<pending, lines, carried, notices>>
cmdVars == <<task, worker, module>>

CmdInit ==
  /\ at = "off" /\ operation = "command" /\ asking = "AT" /\ asked = 0
  /\ ans = "NONE" /\ bufans = "EMPTY" /\ told = 0
  /\ workerAns = "NONE" /\ workerBuf = "EMPTY" /\ sem = 0
  /\ pending = <<>> /\ lines = <<>> /\ carried = {}
  /\ begun = 0 /\ notices = 0 /\ overdue = FALSE

----------------------------------------------------------------------------
(* The module (external).                                                  *)

Reply(text) ==
  /\ pending # <<>>
  /\ text \in IF Head(pending).data THEN {"SEND_OK", "SEND_FAIL"} ELSE {"OK", "ERROR"}
  /\ lines' = Append(lines, text)
  /\ carried' = IF text \in {"OK", "SEND_OK"} THEN carried \cup {Head(pending).no}
                ELSE carried
  /\ pending' = Tail(pending)
  /\ UNCHANGED <<task, worker, notices>>

Ignore ==
  /\ pending # <<>>
  /\ pending' = Tail(pending)
  /\ UNCHANGED <<task, worker, lines, carried, notices>>

Notice ==
  /\ notices < MaxNotices
  /\ notices' = notices + 1
  /\ lines' = Append(lines, "notice")
  /\ UNCHANGED <<task, worker, pending, carried>>

----------------------------------------------------------------------------
(* lesp_worker: one line.  An other line takes the place of one that has   *)
(* not been read.                                                          *)
WorkerLine ==
  /\ lines # <<>>
  /\ lines' = Tail(lines)
  /\ sem' = sem + 1
  /\ CASE Head(lines) = "OK"    -> workerAns' = "OK" /\ UNCHANGED workerBuf
       [] Head(lines) = "ERROR" -> workerAns' = "ERR" /\ UNCHANGED workerBuf
       [] OTHER                -> workerBuf' = Head(lines) /\ UNCHANGED workerAns
  /\ UNCHANGED <<task, pending, carried, notices>>

----------------------------------------------------------------------------
(* The task.                                                               *)

Send(what) ==
  /\ asking' = what
  /\ asked' = asked + 1
  /\ pending' = Append(pending, [no |-> asked + 1, data |-> what = "data"])

(* lesp_check begins with a flush.                                         *)
UncheckedOp(kind) ==
  /\ at = "off" /\ begun < MaxCommands
  /\ begun' = begun + 1
  /\ operation' = kind
  /\ at' = "answer"
  /\ told' = 0 /\ ans' = "NONE" /\ bufans' = "EMPTY"
  /\ Send("AT")
  /\ UNCHANGED <<worker, lines, carried, notices, overdue>>

Begin(kind) ==
  /\ at = "off" /\ begun < MaxCommands
  /\ begun' = begun + 1
  /\ operation' = kind
  /\ at' = "flush"
  /\ told' = 0 /\ ans' = "NONE" /\ bufans' = "EMPTY"
  /\ UNCHANGED <<asking, asked, worker, module, overdue>>

(* What lesp_read makes of the answer and of the line left for it; with    *)
(* neither it waits on.                                                    *)
AnsRead == IF workerAns = "NONE" THEN ans ELSE workerAns
BufRead == IF workerBuf = "EMPTY" THEN bufans ELSE workerBuf
Returns == workerBuf # "EMPTY" \/ AnsRead # "NONE"

Read ==
  /\ sem > 0
  /\ sem' = sem - 1
  /\ workerAns' = "NONE" /\ workerBuf' = "EMPTY"

WaitOn ==
  /\ at # "off"
  /\ Read /\ ~Returns
  /\ UNCHANGED <<task, module>>

Flush ==
  /\ at = "flush"
  /\ Read /\ Returns
  /\ ans' = "NONE" /\ bufans' = "EMPTY"
  /\ UNCHANGED <<at, operation, asking, asked, told, begun, overdue, module>>

(* Nothing has come for 100 ms, which does not say that nothing will: the  *)
(* module may still owe answers, or be putting them on the line.           *)
Flushed ==
  /\ at = "flush"
  /\ sem = 0
  /\ overdue' = (pending # <<>> \/ lines # <<>>)
  /\ at' = "answer"
  /\ Send("AT")
  /\ UNCHANGED <<operation, ans, bufans, told, begun, worker, lines, carried,
                 notices>>

Ends(number) ==
  /\ at' = "off"
  /\ told' = number
  /\ UNCHANGED <<operation, asking, asked, begun, overdue, pending, lines,
                 carried, notices>>

(* The end of lesp_read_ans_ok with an OK, and what comes next.            *)
Answered ==
  /\ ans' = "NONE" /\ bufans' = "EMPTY"
  /\ CASE asking = "AT" ->
            /\ Send("command")
            /\ UNCHANGED <<at, operation, told, begun, overdue, lines, carried,
                           notices>>
       [] asking = "command" /\ operation = "send" ->
            /\ Send("data")
            /\ at' = "sending"
            /\ UNCHANGED <<operation, told, begun, overdue, lines, carried,
                           notices>>
       [] asking = "command" /\ operation = "command" -> Ends(asked)

(* lesp_read_ans_ok; after a line that is no answer its time may be over.  *)
ReadAnsOk ==
  /\ at = "answer"
  /\ \/ ans = "OK" /\ Answered /\ UNCHANGED worker
     \/ /\ ans # "OK"
        /\ Read /\ Returns
        /\ CASE AnsRead = "OK"   -> Answered
             [] AnsRead = "ERR"  -> Ends(0) /\ ans' = "NONE" /\ bufans' = "EMPTY"
             [] AnsRead = "NONE" ->
                  \/ Ends(0) /\ ans' = "NONE" /\ bufans' = "EMPTY"
                  \/ /\ bufans' = BufRead
                     /\ UNCHANGED <<at, operation, asking, asked, ans, told,
                                    begun, overdue, module>>

(* lesp_send looks for its line in whatever was read last.                 *)
ReadSendOk ==
  /\ at = "sending"
  /\ Read /\ Returns
  /\ ans' = AnsRead
  /\ bufans' = BufRead
  /\ IF BufRead = "SEND_OK" THEN Ends(asked)
     ELSE UNCHANGED <<at, operation, asking, asked, told, begun, overdue,
                      module>>

Timeout ==
  /\ at \in {"answer", "sending"}
  /\ sem = 0
  /\ IF at = "answer" THEN ans' = "NONE" /\ bufans' = "EMPTY"
     ELSE UNCHANGED <<ans, bufans>>
  /\ Ends(0)
  /\ UNCHANGED worker

Task ==
  \/ \E kind \in {"command", "send"} : Begin(kind)
  \/ WaitOn \/ Flush \/ Flushed \/ ReadAnsOk \/ ReadSendOk \/ Timeout

CmdNext ==
  \/ \E text \in {"OK", "ERROR", "SEND_OK", "SEND_FAIL"} : Reply(text)
  \/ Ignore \/ Notice \/ WorkerLine \/ Task

----------------------------------------------------------------------------
(* What the driver reports done, the module has carried out, unless the    *)
(* flush before the operation ended too early, when a late answer to a     *)
(* command that was given up is taken for that of the next.  Only that     *)
(* operation may be misreported: once a flush outlasts the answers owed,   *)
(* whatever was mistaken before, reports are true again.                   *)
ReportedDone == told # 0 /\ ~overdue => told \in carried

============================================================================
