---------------------------- MODULE MCLibraries ----------------------------
(***************************************************************************)
(* The message classes, the text helpers and the calendar share no state:  *)
(* an execution exercises one of them while the other two keep their first *)
(* state.                                                                  *)
(***************************************************************************)
EXTENDS Messages, Utilities, Calendar

vars == <<msgVars, textVars, calVars>>

MCValues ==
  [n \in {"connection", "content-length", "transfer-encoding", "host", "cookie"} |->
     CASE n = "connection" -> {"keep-alive", "close"}
       [] n = "content-length" -> {"5"}
       [] n = "transfer-encoding" -> {"Chunked", "gzip"}
       [] OTHER -> {"a"}]

MCStarts == {<<>>, Chars("a://")}
MCAlphabet == CharSet("aF1/:?#@")

At(day, y, m, d, weekday) == [z |-> day, date |-> Ymd(y, m, d), wd |-> weekday]

\* Around the epoch, years 400, 100 and 4 divide, year 0, and the ends of a short.
MCFirstDays ==
  {At(-500, 1968, 8, 19, 1), At(-135171, 1599, 12, 1, 3),
   At(-25598, 1899, 12, 1, 5), At(10926, 1999, 12, 1, 3),
   At(47496, 2100, 1, 15, 5), At(-719559, -1, 12, 1, 3),
   At(-865656, -401, 12, 1, 3), At(-12687793, -32768, 1, 2, 5),
   At(11248342, 32766, 12, 1, 4)}

MCMonths == {-25, -13, -12, -11, -6, -1, 0, 1, 2, 11, 12, 13, 25}

NoText == text = <<>> /\ start = <<>>
NoDay == z = 0 /\ date = Ymd(1970, 1, 1) /\ wd = 4 /\ days_left = -1

NoMsg == msg = Empty("response") /\ raw = {}

Init == \/ MsgInit /\ NoText /\ NoDay
        \/ NoMsg /\ TextInit /\ NoDay
        \/ NoMsg /\ NoText /\ CalInit

Next == \/ MsgNext /\ text = start /\ NoDay /\ UNCHANGED <<textVars, calVars>>
        \/ TextNext /\ NoMsg /\ NoDay /\ UNCHANGED <<msgVars, calVars>>
        \/ CalNext /\ UNCHANGED <<msgVars, textVars>>

Spec == Init /\ [][Next]_vars

(***************************************************************************)
(* The conversions to and from texts lose nothing: what http_url splits    *)
(* and the helpers encode can be put together and decoded again, and the   *)
(* dates and times that date.h prints sort as the time points do.          *)
(***************************************************************************)
AllTextsAgree == TextsAgree /\ TextsSort
=============================================================================
