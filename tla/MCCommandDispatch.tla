-------------------------- MODULE MCCommandDispatch --------------------------
(***************************************************************************)
(* Model values for CommandDispatch: the word 0, commands of every kind of *)
(* handler result, unknown commands below and above 0xA000, and words that *)
(* share the low half of a served command but not its high half, one of    *)
(* them negative.                                                          *)
(***************************************************************************)
EXTENDS CommandDispatch

Small(code) == [hi |-> 0, lo |-> code]

MCWords ==
  {Small(code) : code \in {0, TimeQuery, Speed, 39321, 40961, 40964, 40969}}
    \cup {[hi |-> 1, lo |-> 40964], [hi |-> 65535, lo |-> 40965]}

==============================================================================
