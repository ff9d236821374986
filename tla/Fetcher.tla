------------------------------- MODULE Fetcher -------------------------------
(***************************************************************************)
(* How one operation reaches the network: the URL guard                    *)
(* (services/url_guard.py), the redirect loop (services/fetcher.py) and    *)
(* robots.txt (services/robots.py), in the order in which operations._page *)
(* and run_projection call them: robots.txt and the page, and for the      *)
(* tools that read one more resource robots.txt and that resource.         *)
(*                                                                         *)
(* The name servers and web servers are the environment: every resolution  *)
(* may answer anew and every server may redirect anywhere, declare any     *)
(* length, send any type, stall or break off.  Redirections, sizes and     *)
(* times are small numbers.                                                *)
(***************************************************************************)
EXTENDS Integers, FiniteSets

CONSTANTS
    Hosts,        \* names that resolve, and literal addresses
    Addresses,
    Public,       \* the addresses that are global and not multicast
    Ports,
    AllowedPorts, \* settings.fetch_allowed_ports
    Target,       \* the URL asked for
    Targets,      \* URLs that servers redirect to
    HasSecondary, \* site_llms_txt, site_security_txt
    MaxRedirects, \* fetch_max_redirects
    MaxBody,      \* fetch_max_body_bytes
    Chunks,       \* sizes of the pieces a body comes in
    TotalTimeout, \* fetch_total_timeout_seconds
    Promised      \* requests the documentation allows an operation

VARIABLES
    stage,     \* which of the fetches is under way, or "done", "failed"
    step,      \* of the redirect loop
    subject,   \* URL the page or resource is asked for under
    current,   \* URL of this hop
    pinned,    \* the address of this hop
    redirects, \* taken in this fetch
    size,      \* of the body so far
    elapsed,   \* in this hop
    spent,     \* in this fetch, up to TotalTimeout + 1
    requests,  \* sent by the operation
    reached,   \* addresses connected to
    asked,     \* hosts whose robots.txt was looked for
    read       \* hosts a page or resource was requested from

hop == <<step, current, pinned, size, elapsed>>
record == <<requests, reached, asked, read>>
fetchVars == <<stage, subject, hop, redirects, spent, record>>

\* A URL without its path: what the guard looks at.
Url == [scheme : {"http", "https", "other"}, credentials : BOOLEAN,
        host : Hosts, kind : {"name", "local", "numeric", "literal"}, port : Ports]

ASSUME FetcherAssumption ==
    /\ Public \subseteq Addresses /\ AllowedPorts \subseteq Ports
    /\ Targets \cup {Target} \subseteq Url
    /\ \A url \in Targets \cup {Target} : url.kind = "literal" => url.host \in Addresses
    /\ HasSecondary \in BOOLEAN
    /\ Chunks \subseteq Nat \ {0}
    /\ {MaxRedirects, MaxBody, TotalTimeout, Promised} \subseteq Nat

Fetching == {"robots", "page", "robots2", "secondary"}
FetchEnded == {"done", "failed"}

FetchInit ==
    /\ stage = "robots"
    /\ step = "guard"
    /\ subject = Target
    /\ current = Target
    /\ pinned \in Addresses
    /\ redirects = 0
    /\ size = 0 /\ elapsed = 0 /\ spent = 0
    /\ requests = 0
    /\ reached = {} /\ asked = {} /\ read = {}

-----------------------------------------------------------------------------
(* What follows a fetch *)

\* fetch_url is called once more, or the operation is over.
Enter(next, url) ==
    /\ stage' = next
    /\ step' = "guard"
    /\ subject' = url /\ current' = url
    /\ redirects' = 0 /\ size' = 0 /\ elapsed' = 0 /\ spent' = 0
    /\ UNCHANGED pinned

\* robots.txt allows what follows, because it says so or cannot be had.
Allowed == Enter(IF stage = "robots" THEN "page" ELSE "secondary", subject)

\* A second resource that cannot be had is reported as not found.
GiveUp == Enter(IF stage \in {"robots2", "secondary"} THEN "done" ELSE "failed", current)

\* FetchError: robots_allowed takes a robots.txt it cannot read for consent.
FetchError == IF stage = "robots" \/ stage = "robots2" THEN Allowed ELSE GiveUp

Fetched ==
    IF stage = "robots" \/ stage = "robots2" THEN Allowed \/ GiveUp
    ELSE IF stage = "page" /\ HasSecondary THEN Enter("robots2", current)
    ELSE Enter("done", current)

-----------------------------------------------------------------------------
(* guard_url *)

AdmittedUrl(url) ==
    /\ url.scheme \in {"http", "https"}
    /\ ~url.credentials
    /\ url.kind \notin {"local", "numeric"}
    /\ url.port \in AllowedPorts

\* A literal is its own address, a name resolves to whatever DNS says now.
Resolutions(url) ==
    IF url.kind = "literal" THEN {{url.host}} ELSE SUBSET Addresses

\* Mutant: one public address among the answers is enough.
SomePublic(addresses) == addresses \cap Public # {}

AllPublic(addresses) == addresses # {} /\ addresses \subseteq Public

\* The hop connects to the first address of those that were checked.
Guard ==
    /\ stage \in Fetching /\ step = "guard"
    /\ AdmittedUrl(current)
    /\ \E addresses \in Resolutions(current) :
         /\ AllPublic(addresses)
         /\ pinned' \in addresses
    /\ step' = "connect"
    /\ UNCHANGED <<stage, subject, current, size, elapsed, redirects, spent, record>>

\* UnsafeUrl is no FetchError: it ends even a look for robots.txt.
Unsafe ==
    /\ stage \in Fetching /\ step = "guard"
    /\ ~AdmittedUrl(current) \/ \E addresses \in Resolutions(current) : ~AllPublic(addresses)
    /\ GiveUp
    /\ UNCHANGED record

-----------------------------------------------------------------------------
(* One hop of fetch_url *)

IsRobots == stage \in {"robots", "robots2"}

Connect ==
    /\ step = "connect"
    /\ step' = "respond"
    /\ elapsed' = 0
    /\ requests' = requests + 1
    /\ reached' = reached \cup {pinned}
    /\ asked' = IF IsRobots THEN asked \cup {current.host} ELSE asked
    /\ read' = IF IsRobots THEN read ELSE read \cup {current.host}
    /\ UNCHANGED <<stage, subject, current, pinned, size, redirects, spent>>

\* Mutant: the loop runs once too often.
OneMoreHop == redirects <= MaxRedirects

\* for redirects in range(fetch_max_redirects + 1)
HopsLeft == redirects < MaxRedirects

Redirect(url) ==
    /\ step = "respond"
    /\ HopsLeft
    /\ current' = url
    /\ redirects' = redirects + 1
    /\ step' = "guard"
    /\ UNCHANGED <<stage, subject, pinned, size, elapsed, spent, record>>

\* A redirection too many or to nowhere, a binary type, too long by its own
\* declaration.
RefuseResponse ==
    /\ step = "respond"
    /\ FetchError
    /\ UNCHANGED record

Accept ==
    /\ step = "respond"
    /\ step' = "stream"
    /\ UNCHANGED <<stage, subject, current, pinned, size, elapsed, redirects, spent, record>>

FitsBody(chunk) == size + chunk <= MaxBody

Chunk(chunk) ==
    /\ step = "stream"
    /\ FitsBody(chunk)
    /\ size' = size + chunk
    /\ UNCHANGED <<stage, subject, step, current, pinned, elapsed, redirects, spent, record>>

TooLong(chunk) ==
    /\ step = "stream"
    /\ ~FitsBody(chunk)
    /\ FetchError
    /\ UNCHANGED record

EndOfBody ==
    /\ step = "stream"
    /\ Fetched
    /\ UNCHANGED record

\* httpx errors: connection refused or broken off, read timeout.
Broken ==
    /\ step \in {"respond", "stream"}
    /\ GiveUp
    /\ UNCHANGED record

\* Mutant: no timeout around the hop as a whole.
Never == FALSE

Overdue == elapsed >= TotalTimeout

\* async_timeout cancels the hop.
Timeout ==
    /\ step \in {"respond", "stream"}
    /\ Overdue
    /\ GiveUp
    /\ UNCHANGED record

FetchTick ==
    /\ step \in {"respond", "stream"}
    /\ elapsed < TotalTimeout
    /\ elapsed' = elapsed + 1
    /\ spent' = IF spent <= TotalTimeout THEN spent + 1 ELSE spent
    /\ UNCHANGED <<stage, subject, step, current, pinned, size, redirects, record>>

Loop ==
    \/ Guard \/ Unsafe \/ Connect \/ RefuseResponse \/ Accept \/ EndOfBody
    \/ Broken \/ Timeout
    \/ \E url \in Targets : Redirect(url)
    \/ \E chunk \in Chunks : Chunk(chunk) \/ TooLong(chunk)

FetchNext == Loop \/ FetchTick

FetchSpec == FetchInit /\ [][FetchNext]_fetchVars

\* The loop goes on, time passes and a hop that is overdue is cancelled; no
\* server has to answer.
Fairness == WF_fetchVars(Guard \/ Unsafe) /\ WF_fetchVars(Connect) /\ WF_fetchVars(FetchTick) /\ WF_fetchVars(Timeout)
FairFetchSpec == FetchSpec /\ Fairness

-----------------------------------------------------------------------------
(* Properties *)

FetchTypeOK ==
    /\ stage \in Fetching \cup FetchEnded
    /\ step \in {"guard", "connect", "respond", "stream"}
    /\ {subject, current} \subseteq Targets \cup {Target}
    /\ pinned \in Addresses
    /\ elapsed \in 0..TotalTimeout
    /\ spent \in 0..TotalTimeout + 1
    /\ stage \in FetchEnded => step = "guard"

\* However DNS answers from one hop to the next and wherever servers redirect,
\* no connection goes to an address that is not public.
OnlyPublicReached == reached \subseteq Public

\* Redirections are bounded over the whole chain, and so are the requests of
\* an operation: one and MaxRedirects for each of its fetches.
RequestsBounded ==
    /\ redirects <= MaxRedirects
    /\ requests <= (MaxRedirects + 1) * (IF HasSecondary THEN 4 ELSE 2)

\* The body kept in memory never exceeds its bound, whatever was declared.
BodyBounded == size <= MaxBody

\* Redirected to and fro, trickled to or kept waiting, every operation ends.
EveryFetchEnds == <>(stage \in FetchEnded)

\* services/discovery.py, "Uses at most eight external HTTP requests" (of the
\* passport).
RequestsAsPromised == requests <= Promised

\* STAGE_11_TOOL_EXPANSION_REPORT.md, "robots enforcement": a host is not read
\* from before its robots.txt was looked for.
RobotsEnforced == read \subseteq asked

\* services/settings_registry.py calls fetch_total_timeout_seconds the total
\* timeout of a fetch.
TotalTimeoutHeld == spent <= TotalTimeout
=============================================================================
