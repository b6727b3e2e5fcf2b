-------------------------- MODULE AnalyticsQueries --------------------------
(***************************************************************************)
(* What the dashboard reads (analytics/api.py): the request table for the  *)
(* summary, hourly_agg for the overview.                                   *)
(***************************************************************************)
EXTENDS AnalyticsBuffer, FiniteSetsExt

\* get_analytics_summary: the rows made since a time.
Summary(since) ==
  LET rows == {i \in stored : born[i] >= since}
  IN [total   |-> Cardinality(rows),
      success |-> Cardinality({i \in rows : log[i].status = "success"})]

\* get_dashboard: the buckets whose hour began since a time.
Dashboard(since) ==
  LET buckets == {h \in DOMAIN hourly : h * Hour >= since}
  IN [total   |-> MapThenSumSet(LAMBDA h : hourly[h].requests, buckets),
      success |-> MapThenSumSet(LAMBDA h : hourly[h].success, buckets),
      errors  |-> MapThenSumSet(LAMBDA h : hourly[h].failure, buckets)]
=============================================================================
