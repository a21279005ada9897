----------------------------- MODULE MCCronRuns -----------------------------
(* CronRuns on a small instance: the cfgs give its constants model values.  *)
EXTENDS CronRuns
=============================================================================
