------------------------------ MODULE MCTpccRun ------------------------------
(* Small instance of TpccRun: three warehouses on two clients.             *)
EXTENDS TpccRun

\* A full run, loading into existing tables, a load only, running only, running
\* with a compaction first, and the combination that does nothing.
MCOptions ==
  {{}, {"no_drop_create", "skip_compaction"}, {"no_run"}, {"only_run", "compact"},
   {"no_load", "no_run"}}

=============================================================================
