-------------------------- MODULE MCSharedProxySql --------------------------
(***************************************************************************)
(* One execution of each job that uses the instance in production: the     *)
(* crawl and the ML pipeline, which manage it, and the recrawl, for which  *)
(* its workflow starts it and which the Safety-Net does not monitor.       *)
(***************************************************************************)
EXTENDS SharedProxySql

MCExecs == {"crawl_1", "ml_1", "recrawl_1"}
MCJobs == {"crawl", "ml", "recrawl"}
MCJob == [e \in MCExecs |-> CASE e = "crawl_1" -> "crawl"
                              [] e = "ml_1" -> "ml"
                              [] e = "recrawl_1" -> "recrawl"]
=============================================================================
