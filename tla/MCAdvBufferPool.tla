--------------------------- MODULE MCAdvBufferPool ---------------------------
(* The instance of AdvBufferPool that TLC checks: sets of advertising data  *)
(* without scan response, so that a call registers one buffer, and a thread *)
(* for each adapter.  The second adapter advertises one buffer only, when it *)
(* is free, and does not start a scan.                                     *)
EXTENDS AdvBufferPool

CONSTANTS SecondThread, SecondAdapter, SecondBuffer

OneBuffer == {<<b, NoBuffer>> : b \in Buffers \ ScanBuffers}

IsFree(t) == call[t].at = "encode" => SecondBuffer \notin InPool(pool[SecondAdapter])

OneThreadEach ==
    \A t \in Threads : call[t].at # "idle" =>
        /\ t = SecondThread <=> call[t].adapter = SecondAdapter
        /\ t = SecondThread => \/ call[t].op = "scan_stop"
                               \/ /\ call[t].op = "configure"
                                  /\ call[t].bufs[1] = SecondBuffer
                                  /\ IsFree(t)
=============================================================================
