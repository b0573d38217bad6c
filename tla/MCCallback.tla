----------------------------- MODULE MCCallback -----------------------------
\* Callback for TLC.
EXTENDS Callback

\* WEBHOOK_RETRY_BACKOFF as far as it is used.
Seconds == <<1, 3, 10, 30>>
=============================================================================
