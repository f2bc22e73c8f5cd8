----------------------------- MODULE CscanSweep ------------------------------
(***************************************************************************)
(* How long a request may wait under CSCAN, counted in sweeps: a history   *)
(* variable beside DiskArm counts, for each pending request, how often the *)
(* arm has gone back (moved to a lower block) since the request came in.   *)
(***************************************************************************)
EXTENDS DiskArm

VARIABLE wraps     \* wraps[i] belongs to queue[i]

svars == <<queue, head, current, wraps>>

SInit == AInit /\ wraps = <<>>

SSubmit(c, b) == Submit(c, b) /\ wraps' = Append(wraps, 0)

SServe(i) ==
    /\ Serve(i)
    /\ LET more == IF head' < head THEN 1 ELSE 0
       IN  wraps' = [j \in 1 .. Len(queue) - 1 |->
                        IF j < i THEN wraps[j] + more ELSE wraps[j + 1] + more]

SNext ==
    \/ \E c \in Clients, b \in Blocks : SSubmit(c, b)
    \/ \E i \in DOMAIN queue : SServe(i)
    \/ Complete /\ UNCHANGED wraps

SSpec == SInit /\ [][SNext]_svars

-----------------------------------------------------------------------------
\* CSCAN (cscan_scheduler): whatever arrives meanwhile, the arm goes back at most
\* once while a request waits, and then only to the request's side of it.
OneWrapPerWait ==
    Policy = "CSCAN" =>
        \A i \in DOMAIN queue :
            /\ wraps[i] <= 1
            /\ wraps[i] = 1 => head <= queue[i].block
=============================================================================
