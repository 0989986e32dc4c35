----------------------------- MODULE MCPipeline -----------------------------
(* Small instances of Pipeline: transactions of one and two rows, one of    *)
(* which may be a row the fold cannot take.                                *)
EXTENDS Pipeline

MCOp == {"a", "b", "nan"}
MCPoison == {"nan"}

ShortAndLong == {<<"a">>, <<"b", "a">>}
WithPoison == {<<"a">>, <<"b", "a">>, <<"nan">>}
=============================================================================
