---------------------------- MODULE MCQueryCache ----------------------------
(* The query cache on every shape the dashboard's pages have.               *)
EXTENDS DashboardPages, QueryCache

MCShapes == PageShapes

\* The hypothesis of OwnWritesAreShown, evaluated on the dashboard's pages.
ASSUME PagesRefresh == OwesWhatItRefreshes
=============================================================================
