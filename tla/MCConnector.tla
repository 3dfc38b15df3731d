---------------------------- MODULE MCConnector ----------------------------
(* Two responses, each serialised in one or more visits. *)
EXTENDS ConnectorSpec

MCIds == {1, 2}
MCRuns == {<<>>, <<"H">>, <<"E">>, <<"H", "B">>, <<"B", "E">>}
=============================================================================
