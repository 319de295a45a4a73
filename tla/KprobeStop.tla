----------------------------- MODULE KprobeStop -----------------------------
\* The flag by which SIGINT ends both threads of kprobe.c.
VARIABLE stop

sig_int == ~stop /\ stop' = TRUE
=============================================================================
