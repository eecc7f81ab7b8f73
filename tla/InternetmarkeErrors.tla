------------------------ MODULE InternetmarkeErrors ------------------------
(***************************************************************************)
(* How the adapter classifies an answer of the shopping-cart endpoints.    *)
(* A vendor code is abstracted to the set of markers the classification    *)
(* looks for in it; NoVendorCode is an answer without one.                 *)
(***************************************************************************)
EXTENDS Naturals

NoVendorCode == {"absent"}

\* Is the answer a success (httpx is_success)?
Ok(status) == status \in 200..299

BugCodeOfStatus(status) ==
    CASE status = 401  -> "AUTH_FAILED"
      [] status = 403  -> "AUTH_DENIED"
      [] status = 429  -> "TOO_MANY"
      [] status >= 500 -> "NETWORK_UNAVAILABLE"
      [] OTHER         -> "MARK_FAILED"

\* map_internetmarke_error_code without a vendor code.
CodeOfStatus(status) ==
    CASE status = 401  -> "AUTH_FAILED"
      [] status = 403  -> "AUTH_DENIED"
      [] status = 429  -> "RATE_LIMITED"
      [] status >= 500 -> "NETWORK_UNAVAILABLE"
      [] OTHER         -> "MARK_FAILED"

SaysWallet(vendor) ==
    \/ vendor \cap {"INSUFFICIENT", "FUNDS", "WALLETBALANCE", "NOTENOUGH"} # {}
    \/ {"WALLET", "BALANCE"} \subseteq vendor

\* map_internetmarke_error_code: the first pattern that matches decides, and
\* a vendor code hides the HTTP status.
MapErrorCode(vendor, status) ==
    IF vendor = NoVendorCode THEN CodeOfStatus(status)
    ELSE CASE vendor \cap {"AUTH", "LOGIN"} # {} -> "AUTH_FAILED"
           [] SaysWallet(vendor) -> "WALLET_INSUFFICIENT"
           [] "PRODUCT" \in vendor -> "MARK_FAILED"
           [] vendor \cap {"RATE_LIMIT", "TOO_MANY"} # {} -> "RATE_LIMITED"
           [] OTHER -> "MARK_FAILED"

NeverRetryable ==
    {"WALLET_INSUFFICIENT", "AUTH_FAILED", "AUTH_DENIED", "LINKAGE_PENDING"}

IsRetryable(status, vendor) ==
    /\ MapErrorCode(vendor, status) \notin NeverRetryable
    /\ \/ status >= 500
       \/ status = 429
       \/ vendor \cap {"TIMEOUT", "SERVICE_UNAVAILABLE", "RATE_LIMIT"} # {}
=============================================================================
