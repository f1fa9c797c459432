----------------------------- MODULE MCIndexReaders ----------------------------
(* Small instances of IndexReaders for TLC. *)
EXTENDS IndexReaders, TLC

CONSTANTS i1, i2, f1, t1, t2, x1, x2, a1, a2, r1, h1, h2

(* Both texts have t1 for the first analyzer; the second one drops x2. *)
MCAnalysis ==
    (a1 :> [f \in Fields |-> x1 :> <<t1>> @@ x2 :> <<t2, t1>>]) @@
    (a2 :> [f \in Fields |-> x1 :> <<t1, t2>> @@ x2 :> << >>])

MCReaderOf   == r1 :> h1
(* Queries of one and of two clauses, a purely negative one, a prefix of both terms. *)
Ask(must, should, mustNot, prefix) ==
    [must |-> must, should |-> should, mustNot |-> mustNot, prefix |-> prefix]

K1 == <<f1, t1>>
K2 == <<f1, t2>>

OneTerm == {Ask(<<K1>>, << >>, << >>, {})}

MCQueries == OneTerm \cup
    {Ask(<<K2, K1>>, << >>, << >>, {}), Ask(<<K1>>, <<K2>>, << >>, {}),
     Ask(<<K1>>, << >>, <<K2>>, {}), Ask(<< >>, << >>, <<K2>>, {}),
     Ask(<< >>, << >>, << >>, {K1, K2})}

OneAnalyzer  == h1 :> a1
TwoAnalyzers == h1 :> a1 @@ h2 :> a2

================================================================================
