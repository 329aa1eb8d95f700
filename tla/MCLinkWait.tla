----------------------------- MODULE MCLinkWait -----------------------------
EXTENDS LinkWait

\* Retry counts from none to four polls: enough for an error, a down and an
\* up poll in every order, and for the counts -1 and 0 that ask for no poll.
AnyRetries == -1..4

=============================================================================
