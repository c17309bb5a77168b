----------------------------- MODULE MCCrawlRound -----------------------------
(***************************************************************************)
(* A small instance of CrawlRound: a home page that links to a second page *)
(* and may also name it as its next page.                                  *)
(***************************************************************************)
EXTENDS CrawlRound

CONSTANTS f1, f2

MCLinks == [u \in Urls |-> IF u = "h" THEN {"g"} ELSE {}]
MCNextPage == [u \in Urls |-> IF u = "h" THEN "g" ELSE NULL]
=============================================================================
