-------------------------- MODULE MCCrawlScheduler --------------------------
(***************************************************************************)
(* Values for the constants of CrawlScheduler: two jobs of the browser     *)
(* company and two of a small one, in the order in which they are queued.  *)
(***************************************************************************)
EXTENDS CrawlScheduler

MCCompanies == {"athome", "odakyu"}
MCCompany == <<"athome", "odakyu", "athome", "odakyu">>
MCCompanyLimit == [c \in MCCompanies |-> IF c = "athome" THEN 3 ELSE 1]
MCBrowser == {"athome"}
=============================================================================
