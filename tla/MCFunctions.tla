----------------------------- MODULE MCFunctions -----------------------------
(***************************************************************************)
(* The parts of the program that keep no state between two calls, on small *)
(* inputs: one of them runs, the others stand still.                       *)
(***************************************************************************)
EXTENDS Decoder, DecimalSum, ViewColumns

VARIABLE part

(* A few messages of every type, among them some with different integers   *)
(* wherever two fields of one width could be confused.                     *)
Numbers == {1, 2}
Names == {<<>>, <<"x">>}
Values == {<<"n">>, <<"u">>} \cup {<<"t", s>> : s \in Names}
Lists(S) == {<<>>} \cup {<<x>> : x \in S} \cup {<<x, y>> : x, y \in S}

Message(fields) == [f \in Fields |-> IF f \in DOMAIN fields THEN fields[f] ELSE <<>>]

MCMessages(k) ==
    CASE k = "B" -> {Message([lsn |-> <<a>>, commit_ts |-> <<b>>, xid |-> <<a>>]) :
                        a, b \in Numbers}
      [] k = "C" -> {Message([flags |-> <<0>>, lsn |-> <<a>>, end_lsn |-> <<b>>,
                              commit_ts |-> <<c>>]) : a, b, c \in Numbers}
      [] k = "O" -> {Message([lsn |-> <<a>>, name |-> <<s>>]) : a \in Numbers, s \in Names}
      [] k = "Y" -> {Message([type_oid |-> <<a>>, namespace |-> <<s>>, name |-> <<t>>]) :
                        a \in Numbers, s, t \in Names}
      [] k = "R" -> {Message([rel_id |-> <<a>>, namespace |-> <<s>>, name |-> <<t>>,
                              replica_identity |-> <<i>>, columns |-> cols,
                              flags |-> [c \in DOMAIN cols |-> a],
                              type_oid |-> [c \in DOMAIN cols |-> c],
                              type_mod |-> [c \in DOMAIN cols |-> -1]]) :
                        a \in Numbers, s, t \in Names, i \in {"d", "f"}, cols \in Lists(Names)}
      [] k = "T" -> {Message([flags |-> <<a>>, rel_id |-> ids]) :
                        a \in Numbers, ids \in Lists(Numbers)}
      [] k = "I" -> {Message([rel_id |-> <<a>>, tags |-> <<"N">>, new |-> row]) :
                        a \in Numbers, row \in Lists(Values)}
      [] k = "D" -> {Message([rel_id |-> <<1>>, tags |-> <<"K">>, key |-> row]) :
                        row \in Lists(Values)}
                    \cup {Message([rel_id |-> <<1>>, tags |-> <<"O">>, old |-> row]) :
                        row \in Lists(Values)}
      [] k = "U" -> {Message([rel_id |-> <<1>>, tags |-> <<"N">>, new |-> row]) :
                        row \in Lists(Values)}
                    \cup {Message([rel_id |-> <<1>>, tags |-> <<"K", "N">>, key |-> <<v>>,
                                   new |-> row]) : v \in Values, row \in Lists(Values)}
                    \cup {Message([rel_id |-> <<1>>, tags |-> <<"O", "N">>, old |-> <<v>>,
                                   new |-> row]) : v \in Values, row \in Lists(Values)}

(* Two digits of precision: values that fit alone, and together or not, a  *)
(* tie between two roundings, and a value beyond the precision.            *)
MCAmounts == {1, 88, 125, 987}

(* An ordinary name, the longest that leaves room for a suffix, one that   *)
(* leaves room for the shorter only, and the longest.                      *)
MCStems == {"x", "b58", "b59", "b63", "b64", "rows", "all"}
MCStemBytes ==
    [s \in MCStems |-> CASE s = "x" -> 1 [] s = "b58" -> 58 [] s = "b59" -> 59 [] s = "b63" -> 63
                         [] s = "b64" -> 64 [] s = "rows" -> 14 [] s = "all" -> 13]

NoMessage ==
    /\ kind = "B" /\ sent = Nothing /\ whole = FALSE /\ buf = <<>> /\ pos = 0
    /\ todo = <<>> /\ got = Nothing /\ outcome = "none"

Init ==
    \/ part = "decoder" /\ DecoderInit /\ SumInit /\ ViewInit
    \/ part \in {"sum", "view"} /\ NoMessage /\ SumInit /\ ViewInit

Next ==
    /\ UNCHANGED part
    /\ \/ part = "decoder" /\ DecoderNext /\ UNCHANGED <<sumVars, viewVars>>
       \/ part = "sum" /\ SumNext /\ UNCHANGED <<decoderVars, viewVars>>
       \/ part = "view" /\ ViewNext /\ UNCHANGED <<decoderVars, sumVars>>

Spec == Init /\ [][Next]_<<part, decoderVars, sumVars, viewVars>>
=============================================================================
