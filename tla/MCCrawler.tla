----------------------------- MODULE MCCrawler -----------------------------
(* One node, three URLs in two domains, and a queue that is full at one     *)
(* URL.  u2 is refused at first, then found again on the page of u3.       *)
EXTENDS Crawler

CONSTANTS n1, u1, u2, u3
MCHome == u1 :> n1 @@ u2 :> n1 @@ u3 :> n1
MCDomain == u1 :> "a" @@ u2 :> "a" @@ u3 :> "b"
MCLinks == u1 :> <<>> @@ u2 :> <<>> @@ u3 :> <<u1, u2>>
MCSeeds == <<u1, u2, u3>>
MCLimit == [s \in {"isolate", "index-queue", "index-directly"} |->
              [crawl |-> IF s = "index-directly" THEN 1 ELSE 0, index |-> 0]]
=============================================================================
