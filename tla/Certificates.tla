---------------------------- MODULE Certificates ----------------------------
(***************************************************************************)
(* The expiry shown for an application's TLS certificate: read at most     *)
(* once a day, after a check, beside it and whatever its outcome. A failed *)
(* read is stamped too, and what was read before stays until the next.     *)
(***************************************************************************)
EXTENDS Integers

CONSTANTS
  Day,       \* CERT_REFRESH_HOURS, in ticks
  MaxSwaps   \* bound on renewals and moves to another host

VARIABLES
  secured,   \* the URL is https and verify_ssl is set
  actual,    \* the certificate its host presents
  stored,    \* the one cert_expires_at is of, if any
  readAge,   \* ticks since cert_checked_at
  checking   \* a check of the application has just measured

certVars == <<secured, actual, stored, readAge, checking>>

NoCertificate == 0

\* The probe of a check, whatever it finds.
Measure ==
  /\ ~checking
  /\ checking' = TRUE
  /\ UNCHANGED <<secured, actual, stored, readAge>>

\* Mutant: what has been read once is not read again.
RefreshCertificate_Once(readable) ==
  /\ checking
  /\ checking' = FALSE
  /\ IF secured /\ readAge = Day /\ stored = NoCertificate
     THEN readAge' = 0 /\ stored' = IF readable THEN actual ELSE stored
     ELSE UNCHANGED <<readAge, stored>>
  /\ UNCHANGED <<secured, actual>>

\* _refresh_certificate: the host may be out of reach, or its certificate not
\* be trusted, so that nothing is read.
RefreshCertificate(readable) ==
  /\ checking
  /\ checking' = FALSE
  /\ IF secured /\ readAge = Day
     THEN readAge' = 0 /\ stored' = IF readable THEN actual ELSE stored
     ELSE UNCHANGED <<readAge, stored>>
  /\ UNCHANGED <<secured, actual>>

\* The certificate is renewed, or the URL edited: what is stored stays.
Swap ==
  /\ actual <= MaxSwaps
  /\ actual' = actual + 1
  /\ UNCHANGED <<secured, stored, readAge, checking>>

Secure ==
  /\ secured' = ~secured
  /\ UNCHANGED <<actual, stored, readAge, checking>>

Tick ==
  /\ readAge < Day
  /\ readAge' = readAge + 1
  /\ UNCHANGED <<secured, actual, stored, checking>>

CertInit ==
  /\ secured \in BOOLEAN /\ actual = 1 /\ stored = NoCertificate
  /\ readAge = Day  \* never read
  /\ checking = FALSE

CertNext ==
  \/ Measure \/ (\E readable \in BOOLEAN : RefreshCertificate(readable))
  \/ Swap \/ Secure \/ Tick

-----------------------------------------------------------------------------
\* Once a certificate stays and is to be verified, its expiry is what is shown
\* in the end, and not that of an earlier one: reads may fail, but not all, and
\* checks go on. (monitoring_service 205-248, 501)
CertificateFollows == <>[]secured => <>[](stored = actual)
=============================================================================
