------------------------------ MODULE EmbedPage ------------------------------
(***************************************************************************)
(* assets/dig-embed.js: one page that runs the snippet, from boot() on.    *)
(*                                                                         *)
(* The page is the loader shell of the resolver or a page of somebody      *)
(* else; the snippet waits a while for window.digurn, has the entry served *)
(* by a service worker (tier 1) or reads it itself (tier 2, also when      *)
(* tier 1 fails), swaps the document, rewrites the elements of the new one *)
(* and follows its links in the page.  What a read (readResource, module   *)
(* EmbedRead) returns is left out here: it ends well or it rejects.  One   *)
(* action is the code between two awaits, timers or events.                *)
(***************************************************************************)
EXTENDS Naturals, FiniteSets

CONSTANTS
    Envs,      \* the pages, browsers and networks: see EnvTypes
    Assets,    \* elements with a src or href to rewrite
    Anchors,   \* links
    Entry,     \* the read of the entry
    MaxPolls,  \* polls for window.digurn before giving up (80 in the code)
    MaxTimers  \* bound: a link is followed while fewer timers of swaps are set

\* Where the snippet runs, whether its host is the page's own, whether the browser can run a module
\* service worker, what the entry is, and who fails: the worker and what it is served with, or the
\* network of the page.  The loader shell has the snippet of its own host and index.html as entry.
EnvTypes ==
    [host : {"loader", "page"}, sameOrigin : BOOLEAN, capable : BOOLEAN,
     entry : {"html", "image", "other"}, faults : SUBSET {"worker", "page"}]

Elements == Assets \cup Anchors
Reads == {Entry} \cup Elements

ASSUME PageAssumption ==
    /\ Envs \subseteq EnvTypes
    /\ \A e \in Envs : e.host = "loader" => e.sameOrigin /\ e.entry = "html"
    /\ Assets \cap Anchors = {} /\ Entry \notin Elements /\ IsFiniteSet(Anchors)
    /\ MaxPolls \in Nat /\ MaxTimers \in Nat \ {0}

VARIABLES
    env,
    told,        \* window.digurn or window.__digShellInert
    flag,        \* dig_sw_reloaded in the session storage, which outlives a reload
    controlled,  \* a service worker controls the page
    activating,  \* a service worker that was registered has yet to claim its clients
    boot,        \* where boot is
    polls,       \* polls so far
    doc,         \* what document the page shows
    cover,       \* the card over it, or the card that the loader shell is
    dig,         \* the memoised promise _dig
    patched,     \* the in-page interceptor is installed
    read,        \* the reads in flight: for the entry, an asset, or the document behind a link
    el,          \* the elements of the present document
    due          \* swap timers that are set

world == <<env, told, flag, controlled, activating>>
page == <<doc, cover, dig, patched, read, el, due>>
vars == <<world, boot, polls, page>>

Settled == {"standDown", "gaveUp", "shown", "error"}
Boots == {"script", "poll", "register", "ready", "entry", "inpage"} \cup Settled

-----------------------------------------------------------------------------
\* What a load of the page starts with; the loader shell is painted before any script runs.
Painted(e) == IF e.host = "loader" THEN "loading" ELSE "none"
NoReads == [r \in Reads |-> "none"]
NoElements == [x \in Elements |-> "absent"]

Init ==
    /\ env \in Envs
    /\ flag = FALSE
    /\ controlled \in IF env.capable THEN BOOLEAN ELSE {FALSE}
    /\ activating = FALSE
    /\ told = "nothing" /\ boot = "script" /\ polls = 0
    /\ doc = "host" /\ cover = Painted(env) /\ el = NoElements
    /\ dig = "none" /\ patched = FALSE /\ read = NoReads /\ due = 0

(* Overlay and reads, as the actions below use them *************************)

\* injectOverlay: adopt the shell, keep the overlay that is there, or make one.
Injected == IF cover = "none" THEN "loading" ELSE cover

\* readResource waits for the memoised wasm first.
Stage == IF dig = "ok" THEN "fetch" ELSE "wasm"

StartReads(rs) ==
    /\ read' = [r \in Reads |-> IF r \in rs THEN Stage ELSE read[r]]
    /\ dig' = IF rs # {} /\ dig = "none" THEN "pending" ELSE dig

(* Who tells the page what to load ******************************************)

\* The loader's fetch of config.json: a URN, or a status that is painted on the shell.
LoaderTold ==
    /\ env.host = "loader" /\ told = "nothing"
    /\ \/ told' = "urn" /\ cover' = cover
       \/ told' = "inert" /\ cover' = "status"
    /\ UNCHANGED <<env, flag, controlled, activating, boot, polls, doc, dig, patched, read, el, due>>

\* A page sets window.digurn when it likes, or never, to anything.
PageTold ==
    /\ env.host = "page" /\ told = "nothing" /\ doc = "host"
    /\ told' \in {"urn", "invalid"}
    /\ UNCHANGED <<env, flag, controlled, activating, boot, polls, page>>

(* boot and start ***********************************************************)

Boot ==
    /\ boot = "script"
    /\ boot' = IF told = "inert" THEN "standDown" ELSE "poll"
    /\ cover' = IF told = "inert" THEN cover ELSE Injected
    /\ UNCHANGED <<world, polls, doc, dig, patched, read, el, due>>

StandDown ==
    /\ boot = "poll" /\ told = "inert"
    /\ boot' = "standDown"
    /\ UNCHANGED <<world, polls, page>>

\* Mutant: off by one.
PollOnceMore ==
    /\ boot = "poll" /\ told = "nothing" /\ polls <= MaxPolls
    /\ polls' = polls + 1
    /\ UNCHANGED <<world, boot, page>>

PollAgain ==
    /\ boot = "poll" /\ told = "nothing" /\ polls < MaxPolls
    /\ polls' = polls + 1
    /\ UNCHANGED <<world, boot, page>>

\* Mutant: the overlay goes, whoever painted it.
GiveUpAndRemove ==
    /\ boot = "poll" /\ told = "nothing" /\ polls = MaxPolls
    /\ boot' = "gaveUp"
    /\ cover' = "none"
    /\ UNCHANGED <<world, polls, doc, dig, patched, read, el, due>>

\* A shell stays painted.
GiveUp ==
    /\ boot = "poll" /\ told = "nothing" /\ polls = MaxPolls
    /\ boot' = "gaveUp"
    /\ cover' = IF env.host = "loader" THEN cover ELSE "none"
    /\ UNCHANGED <<world, polls, doc, dig, patched, read, el, due>>

InvalidUrn ==
    /\ boot = "poll" /\ told = "invalid"
    /\ boot' = "error" /\ cover' = "error"
    /\ UNCHANGED <<world, polls, doc, dig, patched, read, el, due>>

detectTier == IF env.capable /\ env.sameOrigin THEN 1 ELSE 2

runTier2 ==
    /\ boot' = "inpage"
    /\ patched' = TRUE
    /\ StartReads({Entry})
    /\ UNCHANGED <<doc, cover, el, due>>

Start ==
    /\ boot = "poll" /\ told = "urn"
    /\ IF detectTier = 1 THEN boot' = "register" /\ UNCHANGED page ELSE runTier2
    /\ UNCHANGED <<world, polls>>

(* Tier 1 *******************************************************************)

\* A worker that is new to the browser is activated; navigator.serviceWorker.ready does not wait for
\* the end of that.
Register ==
    /\ boot = "register"
    /\ \/ /\ boot' = "ready" /\ activating' \in {activating, TRUE}
          /\ UNCHANGED <<env, told, flag, controlled, page>>
       \/ "worker" \in env.faults /\ runTier2 /\ UNCHANGED world
    /\ UNCHANGED polls

\* clients.claim at the end of the activation: before the page looks, or at any later time.
Claim ==
    /\ activating /\ ~controlled
    /\ controlled' = TRUE /\ activating' = FALSE
    /\ UNCHANGED <<env, told, flag, boot, polls, page>>

\* Mutant: the reload leaves no trace.
LeaveNoFlag == flag' = FALSE

LeaveFlag == flag' = TRUE

\* Once in a session: the next load, which starts from nothing else, finds the flag.
Reload ==
    /\ boot = "ready" /\ ~controlled /\ ~flag
    /\ LeaveFlag
    /\ controlled' \in BOOLEAN
    /\ told' = "nothing" /\ boot' = "script" /\ polls' = 0
    /\ doc' = "host" /\ cover' = Painted(env) /\ el' = NoElements
    /\ dig' = "none" /\ patched' = FALSE /\ read' = NoReads /\ due' = 0
    /\ UNCHANGED <<env, activating>>

NoControl ==
    /\ boot = "ready" /\ ~controlled /\ flag
    /\ runTier2
    /\ UNCHANGED <<world, polls>>

Control ==
    /\ boot = "ready" /\ controlled
    /\ flag' = FALSE
    /\ boot' = "entry"
    /\ UNCHANGED <<env, told, controlled, activating, polls, page>>

\* swapDocumentTier1: the worker serves what the new document asks for.
Served ==
    /\ boot = "entry"
    /\ boot' = "shown" /\ doc' = "content" /\ cover' = "none"
    /\ UNCHANGED <<world, polls, dig, patched, read, el, due>>

NotServed ==
    /\ boot = "entry" /\ "worker" \in env.faults
    /\ runTier2
    /\ UNCHANGED <<world, polls>>

(* Tier 2: reads ************************************************************)

Own == {"wasm", "rpc"}
OfPage(url) == url = "wasm" /\ env.sameOrigin

\* Mutant: no request of the snippet itself is let through.
RouteAll(url) == IF OfPage(url) THEN "store" ELSE "network"

\* The patched window.fetch: own requests pass, and what is not of the page's origin or a URN.
Route(url) == IF url \notin Own /\ OfPage(url) THEN "store" ELSE "network"

\* What reaches the network from a controlled page is answered by the service worker, for which
\* /dig-client/* is a resource of the store like any other path outside of /__dig*.
Intercepted(url) == controlled /\ OfPage(url)

\* Who navigates shows the failure on the overlay, whether or not it is still there.
CoverOf(failed) == IF failed \subseteq Assets THEN cover ELSE "error"
BootOf(failed) == IF Entry \in failed THEN "error" ELSE boot

\* A routed load would wait for itself.  The glue and the wasm are two requests; the last of them
\* decides whether the worker has answered.
LoadDig ==
    /\ dig = "pending" /\ Route("wasm") = "network"
    /\ LET waiting == {r \in Reads : read[r] = "wasm"}
       IN  \/ /\ ~Intercepted("wasm")
              /\ dig' = "ok"
              /\ read' = [r \in Reads |-> IF r \in waiting THEN "fetch" ELSE read[r]]
              /\ UNCHANGED <<boot, cover>>
           \/ /\ Intercepted("wasm") \/ "page" \in env.faults
              /\ dig' = "none"
              /\ read' = [r \in Reads |-> IF r \in waiting THEN "none" ELSE read[r]]
              /\ cover' = CoverOf(waiting) /\ boot' = BootOf(waiting)
    /\ UNCHANGED <<world, polls, doc, patched, el, due>>

\* Mutant: the failure of a link is nobody's.
ReadFailsSilently(r) ==
    /\ read[r] = "fetch" /\ "page" \in env.faults
    /\ read' = [read EXCEPT ![r] = "none"]
    /\ cover' = (IF r = Entry THEN "error" ELSE cover) /\ boot' = BootOf({r})
    /\ UNCHANGED <<world, polls, doc, dig, patched, el, due>>

ReadFails(r) ==
    /\ read[r] = "fetch" /\ "page" \in env.faults
    /\ read' = [read EXCEPT ![r] = "none"]
    /\ cover' = CoverOf({r}) /\ boot' = BootOf({r})
    /\ UNCHANGED <<world, polls, doc, dig, patched, el, due>>

(* Tier 2: the document and its elements ************************************)

BootAfter(r) == IF r = Entry THEN "shown" ELSE boot

\* document.open and write put a new document in the old one's place, overlay and elements and all:
\* what was being read for its elements comes to nothing.  The parser stops at a script that has to be
\* loaded first, with some elements still ahead.  A timer is set to look at the new document.
swapDocument(r) ==
    /\ doc' = "content" /\ cover' = "none"
    /\ el' \in [Elements -> {"absent", "ahead", "unseen"}]
    /\ read' = [x \in Reads |-> IF x = r \/ x \in Assets THEN "none" ELSE read[x]]
    /\ due' = due + 1

\* The document that was read last is shown, whichever link was followed last.
ReadHtml(r) ==
    /\ r \notin Assets /\ read[r] = "fetch"
    /\ r = Entry => env.entry = "html"
    /\ swapDocument(r)
    /\ boot' = BootAfter(r)
    /\ UNCHANGED <<world, polls, dig, patched>>

\* An image as entry gets a document of its own.
ShowImage ==
    /\ read[Entry] = "fetch" /\ env.entry = "image"
    /\ doc' = "image" /\ cover' = "none" /\ el' = NoElements
    /\ read' = [x \in Reads |-> IF x \in Assets \cup {Entry} THEN "none" ELSE read[x]]
    /\ boot' = "shown"
    /\ UNCHANGED <<world, polls, dig, patched, due>>

\* What location.href is set to is an object URL of this read.
HandedToBrowser(r) ==
    /\ r \notin Assets /\ read[r] = "fetch"
    /\ r = Entry => env.entry = "other"
    /\ cover' = "none"

\* The browser saves it,
Download(r) ==
    /\ HandedToBrowser(r)
    /\ read' = [read EXCEPT ![r] = "none"]
    /\ boot' = BootAfter(r)
    /\ UNCHANGED <<world, polls, doc, dig, patched, el, due>>

\* or leaves the page for it, and that is the end of everything that was going on here.
Leave(r) ==
    /\ HandedToBrowser(r)
    /\ doc' = "away" /\ el' = NoElements /\ read' = NoReads /\ due' = 0 /\ dig' = "none"
    /\ boot' = IF boot = "inpage" THEN "shown" ELSE boot
    /\ UNCHANGED <<world, polls, patched>>

ReadAsset(r) ==
    /\ r \in Assets /\ read[r] = "fetch"
    /\ read' = [read EXCEPT ![r] = "none"]
    /\ el' = [el EXCEPT ![r] = "rewritten"]
    /\ UNCHANGED <<world, boot, polls, doc, cover, dig, patched, due>>

\* rewriteEl: a link gets its handler at once, an asset is marked and read.
Rewrite(xs) ==
    /\ el' = [x \in Elements |-> IF x \in xs THEN "marked" ELSE el[x]]
    /\ StartReads(xs \cap Assets)

\* The timer of a swap: scan whatever document is there, and take the overlay away, whoever made it.
Scan ==
    /\ due > 0
    /\ due' = due - 1
    /\ Rewrite({x \in Elements : el[x] = "unseen"})
    /\ cover' = "none"
    /\ UNCHANGED <<world, boot, polls, doc, patched>>

\* The MutationObserver was given the element that was the root of the host document.
Observing == patched /\ doc = "host"

\* The script that the parser waited for has been loaded: it goes on, in a document not observed.
Parse(x) ==
    /\ el[x] = "ahead"
    /\ el' = [el EXCEPT ![x] = "unseen"]
    /\ UNCHANGED <<world, boot, polls, doc, cover, dig, patched, read, due>>

\* A script of the document adds an element; the loader shell has none that does.
Add(x) ==
    /\ patched /\ el[x] = "absent"
    /\ doc = "content" \/ (doc = "host" /\ env.host = "page")
    /\ IF Observing THEN Rewrite({x}) ELSE el' = [el EXCEPT ![x] = "unseen"] /\ UNCHANGED <<read, dig>>
    /\ UNCHANGED <<world, boot, polls, doc, cover, patched, due>>

\* navigateInPage; one navigation per link at a time is a bound of the model, like MaxTimers.
Click(x) ==
    /\ x \in Anchors /\ el[x] = "marked"
    /\ read[x] = "none" /\ due < MaxTimers
    /\ cover' = Injected
    /\ StartReads({x})
    /\ UNCHANGED <<world, boot, polls, doc, patched, el, due>>

-----------------------------------------------------------------------------
BootStep ==
    \/ Boot \/ StandDown \/ PollAgain \/ GiveUp \/ InvalidUrn \/ Start
    \/ Register \/ Reload \/ NoControl \/ Control \/ Served \/ NotServed

\* Every read but those of the elements ends in what the whole page shows.
ReadEnds(r) ==
    \/ ReadFails(r) \/ ReadHtml(r) \/ Download(r) \/ Leave(r) \/ ReadAsset(r)
    \/ r = Entry /\ ShowImage

Next ==
    \/ LoaderTold \/ PageTold \/ BootStep \/ Claim \/ LoadDig \/ Scan
    \/ \E r \in Reads : ReadEnds(r)
    \/ \E x \in Elements : Parse(x) \/ Add(x) \/ Click(x)

Spec == Init /\ [][Next]_vars

\* Timers and continuations run, requests end.  Nobody has to set a URN, add an element or click.
Fairness ==
    /\ WF_vars(BootStep) /\ WF_vars(LoaderTold) /\ WF_vars(LoadDig) /\ WF_vars(Scan)
    /\ \A r \in Reads : WF_vars(ReadEnds(r))
    /\ \A x \in Elements : WF_vars(Parse(x))

FairSpec == Spec /\ Fairness

-----------------------------------------------------------------------------
TypeOK ==
    /\ env \in Envs
    /\ told \in {"nothing", "urn", "invalid", "inert"}
    /\ flag \in BOOLEAN /\ controlled \in BOOLEAN /\ activating \in BOOLEAN
    /\ boot \in Boots /\ polls \in 0 .. MaxPolls
    /\ doc \in {"host", "content", "image", "away"}
    /\ cover \in {"none", "loading", "status", "error"}
    /\ dig \in {"none", "pending", "ok"} /\ patched \in BOOLEAN
    /\ read \in [Reads -> {"none", "wasm", "fetch"}]
    /\ el \in [Elements -> {"absent", "ahead", "unseen", "marked", "rewritten"}]
    /\ due \in 0 .. MaxTimers + Cardinality(Anchors)

\* The loader shell is never blank: while it is the document, its card is painted, through every
\* failure, fallback and surrender.
NeverBlank == env.host = "loader" /\ doc = "host" => cover # "none"

\* A page that says it is loading is: boot is under way, a document is being read, or the overlay is
\* about to be taken away.  The exception is a loader shell whose boot gave up on config.json.
LoadingMeansLoading ==
    cover = "loading" =>
        \/ boot \notin Settled \/ due > 0
        \/ \E r \in Reads \ Assets : read[r] # "none"
        \/ env.host = "loader" /\ boot = "gaveUp"

\* What boot has before it: its stages, the polls that are left, and another load of the page as long
\* as the flag does not forbid it.
MayReload == {"script", "poll", "register", "ready"}
Ahead ==
    CASE boot = "script"   -> MaxPolls + 6
      [] boot = "poll"     -> MaxPolls - polls + 5
      [] boot = "register" -> 4
      [] boot = "ready"    -> 3
      [] boot = "entry"    -> 2
      [] boot = "inpage"   -> 1
      [] OTHER             -> 0
Again == IF boot \in MayReload /\ ~flag THEN MaxPolls + 6 ELSE 0
ToDo == Ahead + Again

\* Boot never goes back: not to a tier that it gave up, not to an earlier stage, and to the script
\* only by the one reload of a session, however the worker, the polls and the reads fall out.
BootAdvances == [][UNCHANGED <<boot, polls>> \/ ToDo' < ToDo]_vars

\* Boot ends, whatever fails and however often the page has to be reloaded: the guard against a
\* reload loop is one flag that outlives the reload.
BootSettles == <>(boot \in Settled)

\* As the code says of itself, the pass after a swap and the observer between them leave no element
\* of the new document behind, unless the document goes first.
SwappedInIsRewritten == \A x \in Elements : el[x] = "unseen" ~> el[x] # "unseen"

\* When the page's own network does not fail, what was started is shown, by whichever tier or after
\* the reload, except where a service worker controls the page without showing it: the wasm that the
\* fallback needs is then asked of that worker.  So it is when the worker claims the page too late.
StartedIsShown ==
    boot \in {"register", "ready", "entry", "inpage"} /\ "page" \notin env.faults
        ~> boot \in {"shown", "script"} \/ (boot = "error" /\ controlled)
=============================================================================
