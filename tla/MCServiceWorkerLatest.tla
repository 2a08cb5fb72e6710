------------------------ MODULE MCServiceWorkerLatest ------------------------
(* A small instance of ServiceWorkerLatest for TLC.                           *)
EXTENDS MCServiceWorker, ServiceWorkerLatest
=============================================================================
