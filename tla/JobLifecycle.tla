---------------------------- MODULE JobLifecycle ----------------------------
(***************************************************************************)
(* What the manager promises about a job, as the status diagram of the     *)
(* manager's README and the transition table of                            *)
(* JobService.transition_job_status state it: a job is claimed, and each   *)
(* attempt ends it as SUCCESS, or counts one retry, until the limit is     *)
(* reached and it is FAILED.  SUCCESS means that the platform has at least *)
(* one report of the job; SUCCESS and FAILED are final.                    *)
(***************************************************************************)
EXTENDS Naturals

CONSTANTS Jobs,          \* the ids of the job table
          MaxRetryTimes  \* MAX_RETRY_TIMES, at least one attempt

VARIABLES status,    \* the status of each job
          retry,     \* the failures counted for each job
          delivered  \* whether the platform has a report of the job

lcVars == <<status, retry, delivered>>

Status == {"ABSENT", "PENDING", "RUNNING", "RETRY", "SUCCESS", "FAILED"}

LCInit ==
  /\ status \in [Jobs -> {"ABSENT", "PENDING"}]
  /\ retry = [j \in Jobs |-> 0]
  /\ delivered = [j \in Jobs |-> FALSE]

Create(j) ==
  /\ status[j] = "ABSENT"
  /\ status' = [status EXCEPT ![j] = "PENDING"]
  /\ UNCHANGED <<retry, delivered>>

Claim(j) ==
  /\ status[j] \in {"PENDING", "RETRY"}
  /\ status' = [status EXCEPT ![j] = "RUNNING"]
  /\ UNCHANGED <<retry, delivered>>

\* The platform keeps a report whose acknowledgement never came back.
Deliver(j) ==
  /\ status[j] = "RUNNING"
  /\ delivered' = [delivered EXCEPT ![j] = TRUE]
  /\ UNCHANGED <<status, retry>>

Complete(j) ==
  /\ status[j] = "RUNNING"
  /\ status' = [status EXCEPT ![j] = "SUCCESS"]
  /\ delivered' = [delivered EXCEPT ![j] = TRUE]
  /\ UNCHANGED retry

Fail(j) ==
  /\ status[j] = "RUNNING"
  /\ IF retry[j] + 1 >= MaxRetryTimes
       THEN /\ status' = [status EXCEPT ![j] = "FAILED"]
            /\ UNCHANGED retry
       ELSE /\ status' = [status EXCEPT ![j] = "RETRY"]
            /\ retry' = [retry EXCEPT ![j] = @ + 1]
  /\ UNCHANGED delivered

LCNext == \E j \in Jobs : Create(j) \/ Claim(j) \/ Deliver(j) \/ Complete(j) \/ Fail(j)

LCSpec == LCInit /\ [][LCNext]_lcVars
=============================================================================
