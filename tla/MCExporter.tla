----------------------------- MODULE MCExporter -----------------------------
(***************************************************************************)
(* One client that scrapes again and again, a job in the second of two     *)
(* queues, a partner and two runs of a container job.                      *)
(***************************************************************************)
EXTENDS Exporter

CONSTANTS q1, q2, b1

MCWorkerQueues == <<q1, q2>>
MCQueueOf == b1 :> q2
=============================================================================
