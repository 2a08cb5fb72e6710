---------------------------- MODULE EmbedPageProofs ----------------------------
(***************************************************************************)
(* Proofs about EmbedPage, for any pages, any elements and links, any      *)
(* number of polls and any interleaving of reads, timers and clicks.       *)
(***************************************************************************)
EXTENDS EmbedPage, FiniteSetTheorems, TLAPS

(* The inductive invariant. *)

\* Reads that end in another document; each may set one more timer.
Documents == Anchors \cup {Entry}
Following == {r \in Documents : read[r] # "none"}
TimersBounded == due + Cardinality(Following) <= MaxTimers + Cardinality(Anchors)

\* Before tier 2 the page reads nothing and touches no element.
Tier2Boots == {"inpage", "shown", "error"}
BeforeTier2 ==
    /\ patched => boot \in Tier2Boots
    /\ ~patched => read = NoReads /\ el = NoElements /\ due = 0 /\ dig = "none"

\* Who was told nothing is still polling, or has given up; a status stays painted.
Untold ==
    /\ told \in {"nothing", "inert"} => boot \in {"script", "poll", "standDown", "gaveUp"}
    /\ told = "inert" => cover = "status"
    /\ boot = "standDown" => told = "inert"

\* In the shell itself there are no links to follow: only the entry is read.
ShellAtRest ==
    env.host = "loader" /\ doc = "host" =>
        due = 0 /\ \A x \in Elements : el[x] = "absent" /\ read[x] = "none"

IInv ==
    /\ TypeOK
    /\ TimersBounded
    /\ BeforeTier2
    /\ Untold
    /\ ShellAtRest
    /\ NeverBlank
    /\ LoadingMeansLoading

-----------------------------------------------------------------------------
(* The steps, sorted by what they touch. *)

\* Steps of boot that read nothing and show nothing new.
Booting ==
    \/ LoaderTold \/ PageTold \/ Boot \/ StandDown \/ PollAgain \/ GiveUp \/ InvalidUrn
    \/ Claim \/ Control
    \/ (Start \/ Register \/ NoControl \/ NotServed) /\ UNCHANGED page

\* Tier 2 begins, from wherever tier 1 got to.
Tier2Begins ==
    /\ Start \/ Register \/ NoControl \/ NotServed
    /\ runTier2

\* A read has ended, and the page goes on.
ReadDone(r) == ReadFails(r) \/ ReadHtml(r) \/ Download(r) \/ ReadAsset(r)

LEMMA StepsSorted ==
    Next => \/ Booting \/ Tier2Begins \/ Reload \/ Served \/ LoadDig \/ Scan
            \/ \E r \in Reads : ReadDone(r) \/ Leave(r)
            \/ ShowImage
            \/ \E x \in Elements : Parse(x) \/ Add(x) \/ Click(x)
BY DEF Next, BootStep, ReadEnds, ReadDone, Booting, Tier2Begins, Start, Register, NoControl, NotServed

\* While a step of boot is taken the page is idle.
LEMMA BootingIsIdle ==
    ASSUME IInv
    PROVE  /\ boot \notin Tier2Boots => ~patched
           /\ ~patched => /\ due = 0 /\ dig = "none"
                          /\ \A r \in Reads : read[r] = "none"
                          /\ \A x \in Elements : el[x] = "absent"
BY DEF IInv, BeforeTier2, NoReads, NoElements

\* Whoever has been told nothing, or to stand down, has not begun tier 2.
LEMMA Tier2IsTold ==
    ASSUME IInv, patched
    PROVE  told \notin {"nothing", "inert"} /\ boot \in Tier2Boots
BY DEF IInv, BeforeTier2, Untold, Tier2Boots

\* What happens to reads, elements, timers and the wasm happens after tier 2 began.
LEMMA ActiveIsTier2 ==
    ASSUME IInv,
           \/ LoadDig \/ Scan \/ ShowImage
           \/ \E r \in Reads : ReadDone(r) \/ Leave(r)
           \/ \E x \in Elements : Parse(x) \/ Add(x) \/ Click(x)
    PROVE  patched
<1>1. CASE LoadDig \/ Scan
  BY <1>1, BootingIsIdle DEF LoadDig, Scan
<1>2. ASSUME NEW r \in Reads, ReadDone(r) \/ Leave(r)
      PROVE  patched
  <2>1. read[r] = "fetch"
    BY <1>2 DEF ReadDone, ReadFails, ReadHtml, Download, HandedToBrowser, Leave, ReadAsset
  <2> QED BY <2>1, BootingIsIdle
<1>3. ASSUME NEW x \in Elements, Add(x) PROVE patched
  BY <1>3 DEF Add
<1>4. ASSUME NEW x \in Elements, Parse(x) \/ Click(x) PROVE patched
  <2>1. el[x] \in {"ahead", "marked"}
    BY <1>4 DEF Parse, Click
  <2> QED BY <2>1, BootingIsIdle
<1>5. CASE ShowImage
  <2>1. Entry \in Reads /\ read[Entry] = "fetch"
    BY <1>5 DEF ShowImage, Reads
  <2> QED BY <2>1, BootingIsIdle
<1> QED BY <1>1, <1>2, <1>3, <1>4, <1>5

LEMMA IInvInit == Init => IInv
<1> SUFFICES ASSUME Init PROVE IInv
  OBVIOUS
<1>1. TypeOK
  <2>1. Cardinality(Anchors) \in Nat
    BY PageAssumption, FS_CardinalityType
  <2>2. due \in 0 .. MaxTimers + Cardinality(Anchors) /\ polls \in 0 .. MaxPolls
    BY <2>1, PageAssumption DEF Init
  <2>3. flag \in BOOLEAN /\ controlled \in BOOLEAN /\ activating \in BOOLEAN /\ patched \in BOOLEAN
    BY Zenon DEF Init
  <2>4. read \in [Reads -> {"none", "wasm", "fetch"}]
        /\ el \in [Elements -> {"absent", "ahead", "unseen", "marked", "rewritten"}]
    BY DEF Init, NoReads, NoElements
  <2>5. cover \in {"none", "loading", "status", "error"}
    BY DEF Init, Painted
  <2> QED BY <2>2, <2>3, <2>4, <2>5 DEF Init, TypeOK, Boots
<1>2. TimersBounded
  <2>1. Following = {}
    BY DEF Init, Following, Documents, NoReads, Reads, Elements
  <2> QED BY <2>1, PageAssumption, FS_EmptySet, FS_CardinalityType DEF Init, TimersBounded
<1>3. BeforeTier2 /\ Untold
  BY DEF Init, BeforeTier2, Untold
<1>4. ShellAtRest
  BY DEF Init, ShellAtRest, NoReads, NoElements, Reads
<1>5. NeverBlank /\ LoadingMeansLoading
  BY DEF Init, NeverBlank, LoadingMeansLoading, Painted, Settled
<1> QED BY <1>1, <1>2, <1>3, <1>4, <1>5 DEF IInv

-----------------------------------------------------------------------------
(* Types. *)

ReadTypes == [Reads -> {"none", "wasm", "fetch"}]
ElementTypes == [Elements -> {"absent", "ahead", "unseen", "marked", "rewritten"}]

\* All but the bound of the timers, which is a matter of TimersBounded.
ControlTypes ==
    /\ env \in Envs
    /\ told \in {"nothing", "urn", "invalid", "inert"}
    /\ boot \in Boots /\ polls \in 0 .. MaxPolls
    /\ cover \in {"none", "loading", "status", "error"}
Switches ==
    flag \in BOOLEAN /\ controlled \in BOOLEAN /\ activating \in BOOLEAN /\ patched \in BOOLEAN
PageTypes ==
    /\ doc \in {"host", "content", "image", "away"}
    /\ dig \in {"none", "pending", "ok"}
    /\ read \in ReadTypes /\ el \in ElementTypes
    /\ due \in Nat

LEMMA ControlTypesStep ==
    ASSUME ControlTypes, Next
    PROVE  ControlTypes'
<1> USE DEF ControlTypes, Boots, Settled, Injected, world, page
<1>1. CASE LoaderTold \/ PageTold \/ Boot \/ StandDown \/ Claim \/ Control \/ Served
  BY <1>1 DEF LoaderTold, PageTold, Boot, StandDown, Claim, Control, Served
<1>2. CASE PollAgain \/ GiveUp \/ InvalidUrn
  BY <1>2, PageAssumption DEF PollAgain, GiveUp, InvalidUrn
<1>3. CASE Start \/ Register \/ NoControl \/ NotServed
  BY <1>3 DEF Start, Register, NoControl, NotServed, runTier2
<1>4. CASE Reload
  BY <1>4, PageAssumption DEF Reload, Painted
<1>5. CASE LoadDig
  BY <1>5 DEF LoadDig, CoverOf, BootOf
<1>6. CASE Scan
  BY <1>6 DEF Scan
<1>7. ASSUME NEW r \in Reads, ReadEnds(r) PROVE ControlTypes'
  BY <1>7 DEF ReadEnds, ReadFails, ReadHtml, Download, Leave, HandedToBrowser, ShowImage, ReadAsset,
              CoverOf, BootOf, BootAfter, swapDocument
<1>8. ASSUME NEW x \in Elements, Parse(x) \/ Add(x) \/ Click(x) PROVE ControlTypes'
  BY <1>8 DEF Parse, Add, Click
<1> QED BY <1>1, <1>2, <1>3, <1>4, <1>5, <1>6, <1>7, <1>8 DEF Next, BootStep

LEMMA SwitchesStep ==
    ASSUME Switches, Next
    PROVE  Switches'
<1> USE DEF Switches, world, page
<1>1. CASE LoaderTold \/ PageTold \/ Boot \/ StandDown \/ PollAgain \/ GiveUp \/ InvalidUrn \/ Served
  BY <1>1, Zenon DEF LoaderTold, PageTold, Boot, StandDown, PollAgain, GiveUp, InvalidUrn, Served
<1>2. CASE Claim \/ Control \/ Reload
  BY <1>2, Zenon DEF Claim, Control, Reload, LeaveFlag
<1>3. CASE Start \/ NoControl \/ NotServed
  BY <1>3, Zenon DEF Start, NoControl, NotServed, runTier2
<1>7. CASE Register
  <2>1. activating' \in {activating, TRUE} => activating' \in BOOLEAN
    OBVIOUS
  <2>2. /\ flag' = flag /\ controlled' = controlled
        /\ activating' = activating \/ activating' \in {activating, TRUE}
        /\ patched' = patched \/ patched' = TRUE
    BY <1>7, Zenon DEF Register, runTier2
  <2> QED BY <2>1, <2>2, Zenon
<1>4. CASE LoadDig \/ Scan
  BY <1>4, Zenon DEF LoadDig, Scan
<1>5. ASSUME NEW r \in Reads, ReadEnds(r) PROVE Switches'
  BY <1>5, Zenon DEF ReadEnds, ReadFails, ReadHtml, Download, Leave, ShowImage, ReadAsset
<1>6. ASSUME NEW x \in Elements, Parse(x) \/ Add(x) \/ Click(x) PROVE Switches'
  BY <1>6, Zenon DEF Parse, Add, Click
<1> QED BY <1>1, <1>2, <1>3, <1>4, <1>5, <1>6, <1>7 DEF Next, BootStep

\* A step of boot leaves the page as it is, but for the card over it.
LEMMA BootingIsQuiet == Booting => UNCHANGED <<env, doc, dig, patched, read, el, due>>
BY DEF Booting, LoaderTold, PageTold, Boot, StandDown, PollAgain, GiveUp, InvalidUrn,
       Claim, Control, Start, Register, NoControl, NotServed, runTier2, world, page

\* Asking for a read changes none that is in flight, and asks for the wasm.
LEMMA StartReadsTypes ==
    ASSUME read \in ReadTypes, dig \in {"none", "pending", "ok"}, NEW rs, StartReads(rs)
    PROVE  read' \in ReadTypes /\ dig' \in {"none", "pending", "ok"}
BY DEF StartReads, Stage, ReadTypes

LEMMA PageTypesStep ==
    ASSUME PageTypes, Next
    PROVE  PageTypes'
<1> USE DEF PageTypes
<1>1. CASE Booting
  BY <1>1, BootingIsQuiet
<1>2. CASE Tier2Begins
  BY <1>2, StartReadsTypes DEF Tier2Begins, runTier2
<1>3. CASE Reload
  BY <1>3 DEF Reload, NoReads, NoElements, ReadTypes, ElementTypes
<1>4. CASE Served
  BY <1>4 DEF Served, world
<1>5. CASE LoadDig
  BY <1>5 DEF LoadDig, ReadTypes
<1>6. CASE Scan
  <2>1. el' \in ElementTypes
    BY <1>6 DEF Scan, Rewrite, ElementTypes
  <2> QED BY <1>6, <2>1, StartReadsTypes DEF Scan, Rewrite
<1>7. ASSUME NEW r \in Reads, ReadFails(r) PROVE PageTypes'
  BY <1>7 DEF ReadFails, ReadTypes
<1>8. ASSUME NEW r \in Reads, ReadHtml(r) PROVE PageTypes'
  BY <1>8 DEF ReadHtml, swapDocument, ReadTypes, ElementTypes
<1>9. CASE ShowImage \/ \E r \in Reads : Download(r) \/ Leave(r)
  BY <1>9 DEF ShowImage, Download, Leave, NoElements, NoReads, ReadTypes, ElementTypes
<1>10. ASSUME NEW r \in Reads, ReadAsset(r) PROVE PageTypes'
  <2>1. el' \in ElementTypes
    BY <1>10 DEF ReadAsset, ElementTypes, Elements
  <2> QED BY <1>10, <2>1 DEF ReadAsset, ReadTypes
<1>13. ASSUME NEW x \in Elements, Parse(x) PROVE PageTypes'
  BY <1>13 DEF Parse, ElementTypes
<1>11. ASSUME NEW x \in Elements, Add(x) PROVE PageTypes'
  <2>1. el' \in ElementTypes
    BY <1>11 DEF Add, Rewrite, ElementTypes
  <2> QED BY <1>11, <2>1, StartReadsTypes DEF Add, Rewrite
<1>12. ASSUME NEW x \in Elements, Click(x) PROVE PageTypes'
  BY <1>12, StartReadsTypes DEF Click
<1> QED BY <1>1, <1>2, <1>3, <1>4, <1>5, <1>6, <1>7, <1>8, <1>9, <1>10, <1>11, <1>12, <1>13, StepsSorted
        DEF ReadDone

-----------------------------------------------------------------------------
(* Timers. *)

LEMMA FollowingCounts ==
    /\ Cardinality(Anchors) \in Nat
    /\ \A S \in SUBSET Documents :
          /\ IsFiniteSet(S) /\ Cardinality(S) \in 0 .. Cardinality(Anchors) + 1
          /\ \A T \in SUBSET S : Cardinality(T) \in Nat /\ Cardinality(T) <= Cardinality(S)
          /\ \A r \in S : Cardinality(S \ {r}) = Cardinality(S) - 1
<1>1. Entry \notin Anchors /\ IsFiniteSet(Anchors) /\ Cardinality(Anchors) \in Nat
  BY PageAssumption, FS_CardinalityType DEF Elements
<1>2. IsFiniteSet(Documents) /\ Cardinality(Documents) = Cardinality(Anchors) + 1
  BY <1>1, FS_AddElement DEF Documents
<1>3. ASSUME NEW S \in SUBSET Documents
      PROVE  IsFiniteSet(S) /\ Cardinality(S) \in Nat /\ Cardinality(S) <= Cardinality(Anchors) + 1
  BY <1>2, FS_Subset, FS_CardinalityType
<1>4. ASSUME NEW S \in SUBSET Documents, NEW T \in SUBSET S
      PROVE  Cardinality(T) \in Nat /\ Cardinality(T) <= Cardinality(S)
  BY <1>3, FS_Subset, FS_CardinalityType
<1>5. ASSUME NEW S \in SUBSET Documents, NEW r \in S
      PROVE  Cardinality(S \ {r}) = Cardinality(S) - 1
  BY <1>3, FS_RemoveElement
<1> QED BY <1>1, <1>3, <1>4, <1>5

\* The bound is kept when nothing is asked for, when a read ends in a timer, and while there are
\* fewer timers than a click allows.
LEMMA TimersKept ==
    ASSUME TimersBounded, due \in Nat, due' \in Nat,
           \/ Following' \subseteq Following /\ due' <= due
           \/ \E r \in Following : Following' \subseteq Following \ {r} /\ due' = due + 1
           \/ due' < MaxTimers
    PROVE  TimersBounded'
<1>1. /\ Following \subseteq Documents /\ Following' \subseteq Documents
      /\ MaxTimers \in Nat /\ Cardinality(Anchors) \in Nat
      /\ Cardinality(Following) \in Nat /\ Cardinality(Following') \in 0 .. Cardinality(Anchors) + 1
  BY FollowingCounts, PageAssumption DEF Following
<1>2. TimersBounded' <=> due' + Cardinality(Following') <= MaxTimers + Cardinality(Anchors)
  BY DEF TimersBounded
<1>3. CASE Following' \subseteq Following /\ due' <= due
  <2>1. Cardinality(Following') <= Cardinality(Following)
    BY <1>1, <1>3, FollowingCounts
  <2> QED BY <1>1, <1>2, <1>3, <2>1 DEF TimersBounded
<1>4. ASSUME NEW r \in Following, Following' \subseteq Following \ {r}, due' = due + 1
      PROVE  TimersBounded'
  <2>1. Cardinality(Following') <= Cardinality(Following \ {r})
    BY <1>1, <1>4, FollowingCounts
  <2>2. Cardinality(Following \ {r}) = Cardinality(Following) - 1
    BY <1>1, FollowingCounts
  <2> QED BY <1>1, <1>2, <1>4, <2>1, <2>2 DEF TimersBounded
<1>5. CASE due' < MaxTimers
  BY <1>1, <1>2, <1>5
<1> QED BY <1>3, <1>4, <1>5

\* Reads of assets are none that end in a document.
LEMMA DocumentsAreNoAssets == Documents \subseteq Reads /\ Documents \cap Assets = {}
BY PageAssumption DEF Documents, Reads, Elements

LEMMA TimersStep ==
    ASSUME IInv, PageTypes, Next
    PROVE  TimersBounded'
<1>1. TimersBounded /\ due \in Nat /\ read \in ReadTypes /\ MaxTimers \in Nat \ {0} /\ due' \in Nat
  <2>1. PageTypes'
    BY PageTypesStep
  <2> QED BY <2>1, PageAssumption DEF IInv, PageTypes
<1>2. CASE Booting \/ Served
  <2>1. read' = read /\ due' = due
    BY <1>2, BootingIsQuiet DEF Served
  <2> QED BY <1>1, <2>1, TimersKept DEF Following
<1>3. CASE Tier2Begins \/ Reload \/ \E r \in Reads : Leave(r)
  <2>1. due' = 0
    <3>1. Tier2Begins => due = 0
      BY BootingIsIdle DEF Tier2Begins, Start, Register, NoControl, NotServed, Tier2Boots
    <3> QED BY <1>3, <3>1 DEF Tier2Begins, runTier2, Reload, Leave
  <2> QED BY <1>1, <2>1, TimersKept
<1>4. CASE LoadDig
  <2>1. due' = due /\ \A r \in Reads : read[r] = "none" => read'[r] = "none"
    BY <1>4 DEF LoadDig
  <2>2. Following' \subseteq Following
    BY <2>1, DocumentsAreNoAssets DEF Following
  <2> QED BY <1>1, <2>1, <2>2, TimersKept
<1>5. CASE Scan
  <2>1. \A r \in Documents : read'[r] = read[r]
    BY <1>5, DocumentsAreNoAssets DEF Scan, Rewrite, StartReads
  <2>2. Following' \subseteq Following /\ due' <= due
    BY <1>1, <1>5, <2>1 DEF Following, Scan
  <2> QED BY <1>1, <2>2, TimersKept
<1>6. CASE ShowImage \/ \E r \in Reads : ReadFails(r) \/ Download(r) \/ ReadAsset(r)
  <2>1. due' = due /\ \A x \in Reads : read'[x] \in {"none", read[x]}
    BY <1>1, <1>6 DEF ReadFails, ShowImage, Download, ReadAsset, ReadTypes
  <2>2. Following' \subseteq Following
    BY <2>1, DocumentsAreNoAssets DEF Following
  <2> QED BY <1>1, <2>1, <2>2, TimersKept
<1>7. ASSUME NEW r \in Reads, ReadHtml(r) PROVE TimersBounded'
  <2>1. /\ due' = due + 1 /\ r \in Documents /\ read[r] = "fetch"
        /\ read'[r] = "none" /\ \A x \in Reads : read'[x] \in {"none", read[x]}
    BY <1>7 DEF ReadHtml, swapDocument, Documents, Reads, Elements
  <2>2. r \in Following /\ Following' \subseteq Following \ {r}
    BY <2>1, DocumentsAreNoAssets DEF Following
  <2> QED BY <1>1, <2>1, <2>2, TimersKept
<1>8. ASSUME NEW x \in Elements, Parse(x) \/ Add(x) PROVE TimersBounded'
  <2>1. due' = due
    BY <1>8 DEF Parse, Add
  <2>2. \A r \in Documents : read'[r] = read[r]
    BY <1>8, DocumentsAreNoAssets DEF Parse, Add, Rewrite, StartReads
  <2>3. Following' \subseteq Following
    BY <2>2 DEF Following
  <2> QED BY <1>1, <2>1, <2>3, TimersKept
<1>9. ASSUME NEW x \in Elements, Click(x) PROVE TimersBounded'
  <2>1. due' < MaxTimers
    BY <1>9 DEF Click
  <2> QED BY <1>1, <2>1, TimersKept
<1> QED BY <1>2, <1>3, <1>4, <1>5, <1>6, <1>7, <1>8, <1>9, StepsSorted DEF ReadDone

-----------------------------------------------------------------------------
(* What has begun, and who was told. *)

LEMMA BeforeTier2Step ==
    ASSUME IInv, PageTypes, Next
    PROVE  BeforeTier2'
<1> USE DEF Tier2Boots
<1>1. CASE Booting
  <2>1. patched' = patched /\ read' = read /\ el' = el /\ due' = due /\ dig' = dig
    BY <1>1, BootingIsQuiet
  <2>2. patched => boot' = boot
    <3> SUFFICES ASSUME patched PROVE boot' = boot
      OBVIOUS
    <3>1. boot \in Tier2Boots /\ told # "nothing"
      BY Tier2IsTold
    <3> QED BY <1>1, <3>1 DEF Booting, LoaderTold, PageTold, Boot, StandDown, PollAgain, GiveUp,
            InvalidUrn, Claim, Control, Start, Register, NoControl, NotServed
  <2> QED BY <2>1, <2>2 DEF IInv, BeforeTier2, NoReads, NoElements
<1>2. CASE Tier2Begins
  BY <1>2 DEF Tier2Begins, runTier2, BeforeTier2
<1>3. CASE Reload
  BY <1>3 DEF Reload, BeforeTier2, NoReads, NoElements
<1>4. CASE Served
  <2>1. ~patched
    BY <1>4, BootingIsIdle DEF Served
  <2> QED BY <1>4, <2>1 DEF Served, IInv, BeforeTier2, NoReads, NoElements
<1>5. CASE UNCHANGED patched /\ patched /\ boot' \in {boot, "error", "shown"}
  BY <1>5, Tier2IsTold DEF BeforeTier2
<1>6. CASE LoadDig \/ Scan
  <2>1. patched
    BY <1>6, ActiveIsTier2
  <2> QED BY <1>5, <1>6, <2>1 DEF LoadDig, Scan, BootOf
<1>7. CASE ShowImage \/ \E r \in Reads : ReadDone(r) \/ Leave(r)
  <2>1. patched
    BY <1>7, ActiveIsTier2
  <2> QED BY <1>5, <1>7, <2>1
      DEF ReadDone, ReadFails, ReadHtml, ShowImage, Download, Leave, ReadAsset, BootOf, BootAfter
<1>8. ASSUME NEW x \in Elements, Parse(x) \/ Add(x) \/ Click(x)
      PROVE  BeforeTier2'
  <2>1. patched
    BY <1>8, ActiveIsTier2
  <2> QED BY <1>5, <1>8, <2>1 DEF Parse, Add, Click
<1> QED BY <1>1, <1>2, <1>3, <1>4, <1>6, <1>7, <1>8, StepsSorted

LEMMA UntoldStep ==
    ASSUME IInv, Next
    PROVE  Untold'
<1> USE DEF Untold
<1>1. CASE LoaderTold \/ PageTold \/ Boot \/ StandDown \/ PollAgain \/ GiveUp \/ InvalidUrn
  BY <1>1 DEF LoaderTold, PageTold, Boot, StandDown, PollAgain, GiveUp, InvalidUrn, Injected, IInv, world, page
<1>2. CASE Start \/ Register \/ NoControl \/ NotServed \/ Claim \/ Control \/ Served
  BY <1>2 DEF Start, Register, NoControl, NotServed, Claim, Control, Served, runTier2, IInv, world, page
<1>3. CASE Reload
  BY <1>3 DEF Reload
<1>4. CASE told' = told /\ patched /\ boot' \in {boot, "error", "shown"}
  BY <1>4, Tier2IsTold DEF IInv, Tier2Boots
<1>5. CASE LoadDig \/ Scan
  <2>1. patched
    BY <1>5, ActiveIsTier2
  <2> QED BY <1>4, <1>5, <2>1 DEF LoadDig, Scan, BootOf, world
<1>6. CASE ShowImage \/ \E r \in Reads : ReadDone(r) \/ Leave(r)
  <2>1. patched
    BY <1>6, ActiveIsTier2
  <2> QED BY <1>4, <1>6, <2>1
      DEF ReadDone, ReadFails, ReadHtml, ShowImage, Download, Leave, ReadAsset, BootOf, BootAfter, world
<1>7. ASSUME NEW x \in Elements, Parse(x) \/ Add(x) \/ Click(x)
      PROVE  Untold'
  <2>1. patched
    BY <1>7, ActiveIsTier2
  <2> QED BY <1>4, <1>7, <2>1 DEF Parse, Add, Click, world
<1> QED BY <1>1, <1>2, <1>3, <1>5, <1>6, <1>7 DEF Next, BootStep, ReadEnds, ReadDone

-----------------------------------------------------------------------------
(* What the page shows. *)

\* While the shell is the document, tier 2 reads the entry and does nothing else.
LEMMA ShellReadsEntry ==
    ASSUME IInv, env.host = "loader", doc = "host"
    PROVE  /\ env.entry = "html"
           /\ ~Scan
           /\ \A r \in Reads : read[r] # "none" => r = Entry
           /\ \A x \in Elements : ~Parse(x) /\ ~Add(x) /\ ~Click(x)
<1>1. due = 0 /\ \A x \in Elements : el[x] = "absent" /\ read[x] = "none"
  BY DEF IInv, ShellAtRest
<1>2. env.entry = "html"
  BY PageAssumption DEF IInv, TypeOK
<1>3. ~Scan
  BY <1>1 DEF Scan
<1>4. \A x \in Elements : ~Parse(x) /\ ~Add(x) /\ ~Click(x)
  BY <1>1 DEF Parse, Add, Click
<1> QED BY <1>1, <1>2, <1>3, <1>4 DEF Reads

LEMMA ShellStep ==
    ASSUME IInv, Next
    PROVE  ShellAtRest' /\ NeverBlank'
<1> SUFFICES ASSUME env'.host = "loader", doc' = "host"
             PROVE  /\ due' = 0 /\ \A x \in Elements : el'[x] = "absent" /\ read'[x] = "none"
                    /\ cover' # "none"
  BY DEF ShellAtRest, NeverBlank
<1>1. env' = env
  BY DEF Next, BootStep, ReadEnds, LoaderTold, PageTold, Boot, StandDown, PollAgain, GiveUp, InvalidUrn, Start,
         Register, Reload, NoControl, Control, Served, NotServed, Claim, LoadDig, Scan, ReadFails, ReadHtml,
         ShowImage, Download, Leave, ReadAsset, Parse, Add, Click, world
<1>2. CASE Reload
  BY <1>1, <1>2 DEF Reload, NoElements, NoReads, Reads, Painted
<1>3. CASE ~Reload
  <2>1. doc = "host"
    BY <1>3, StepsSorted, BootingIsQuiet
    DEF Tier2Begins, runTier2, Served, LoadDig, Scan, ReadDone, ReadFails, ReadHtml, ShowImage, Download,
        Leave, ReadAsset, Parse, Add, Click, swapDocument
  <2>2. /\ env.entry = "html" /\ ~Scan
        /\ \A r \in Reads : read[r] # "none" => r = Entry
        /\ \A x \in Elements : ~Parse(x) /\ ~Add(x) /\ ~Click(x)
        /\ due = 0 /\ \A x \in Elements : el[x] = "absent" /\ read[x] = "none"
        /\ cover # "none"
    BY <1>1, <2>1, ShellReadsEntry DEF IInv, ShellAtRest, NeverBlank
  <2>3. Entry \notin Elements
    BY PageAssumption
  <2>4. CASE Booting
    <3>1. due' = due /\ el' = el /\ read' = read
      BY <2>4, BootingIsQuiet
    <3>2. cover' # "none"
      BY <1>1, <2>2, <2>4 DEF Booting, LoaderTold, PageTold, Boot, StandDown, PollAgain, GiveUp, InvalidUrn,
         Claim, Control, Start, Register, NoControl, NotServed, Injected, page
    <3> QED BY <2>2, <3>1, <3>2
  <2>5. CASE Tier2Begins
    BY <2>2, <2>3, <2>5 DEF Tier2Begins, runTier2, StartReads, Reads
  <2>6. CASE LoadDig
    BY <2>2, <2>6 DEF LoadDig, CoverOf, Reads
  <2>7. ASSUME NEW r \in Reads, ReadFails(r)
        PROVE  /\ due' = 0 /\ \A x \in Elements : el'[x] = "absent" /\ read'[x] = "none"
               /\ cover' # "none"
    <3>1. r = Entry
      BY <2>2, <2>7 DEF ReadFails
    <3> QED BY <2>2, <2>3, <2>7, <3>1 DEF ReadFails, CoverOf, IInv, TypeOK, Reads
  <2>8. ASSUME NEW r \in Reads PROVE ~ReadHtml(r) /\ ~Download(r) /\ ~Leave(r) /\ ~ReadAsset(r)
    <3>1. ~ReadHtml(r) /\ ~Leave(r)
      BY DEF ReadHtml, swapDocument, Leave
    <3>2. ~Download(r) /\ ~ReadAsset(r)
      BY <2>2, <2>3 DEF Download, HandedToBrowser, ReadAsset, Elements
    <3> QED BY <3>1, <3>2
  <2>9. ~Served /\ ~ShowImage
    BY DEF Served, ShowImage
  <2> QED BY <1>3, <2>2, <2>4, <2>5, <2>6, <2>7, <2>8, <2>9, StepsSorted DEF ReadDone
<1> QED BY <1>2, <1>3

\* What is left to wait for when the page says that it is loading.
Underway == boot \notin Settled \/ due > 0 \/ \E r \in Reads \ Assets : read[r] # "none"

LEMMA LoadingStep ==
    ASSUME IInv, Next
    PROVE  LoadingMeansLoading'
<1> SUFFICES ASSUME cover' = "loading" PROVE Underway' \/ (env'.host = "loader" /\ boot' = "gaveUp")
  BY DEF LoadingMeansLoading, Underway
<1>1. cover = "loading" => Underway \/ (env.host = "loader" /\ boot = "gaveUp")
  BY DEF IInv, LoadingMeansLoading, Underway
<1>2. CASE LoaderTold \/ PageTold \/ Claim
  <2>1. env' = env /\ cover = "loading" /\ boot' = boot /\ due' = due /\ read' = read
    BY <1>2 DEF LoaderTold, PageTold, Claim, page
  <2> QED BY <1>1, <2>1 DEF Underway
<1>3. CASE Boot \/ StandDown
  <2>1. told # "inert"
    <3>1. told = "inert" => cover' = "status"
      BY <1>3 DEF IInv, Untold, Boot, StandDown, page
    <3> QED BY <3>1
  <2> QED BY <1>3, <2>1 DEF Boot, StandDown, Underway, Settled
<1>4. CASE GiveUp
  <2>1. env' = env /\ boot' = "gaveUp" /\ env.host = "loader"
    BY <1>4 DEF GiveUp, world
  <2> QED BY <2>1
<1>5. CASE PollAgain \/ InvalidUrn \/ Control \/ Reload
  BY <1>5 DEF PollAgain, InvalidUrn, Control, Reload, Underway, Settled
<1>6. CASE Start \/ Register \/ NoControl \/ NotServed
  <2>1. boot' \in {"register", "ready", "inpage"}
    BY <1>6 DEF Start, Register, NoControl, NotServed, runTier2
  <2> QED BY <2>1 DEF Underway, Settled
<1>7. CASE Served \/ Scan
  BY <1>7 DEF Served, Scan
<1>8. CASE LoadDig
  <2>1. env' = env /\ due' = due /\ cover = "loading" /\ boot' \in {boot, "error"}
    BY <1>8 DEF LoadDig, CoverOf, BootOf, world
  <2>2. boot' = boot /\ \A r \in Reads \ Assets : read[r] # "none" => read'[r] # "none"
    <3>1. CASE dig' = "ok"
      BY <1>8, <3>1 DEF LoadDig
    <3>2. CASE dig' = "none"
      <4>1. {r \in Reads : read[r] = "wasm"} \subseteq Assets
        BY <1>8, <3>2 DEF LoadDig, CoverOf
      <4>2. Entry \notin Assets
        BY PageAssumption DEF Elements
      <4> QED BY <1>8, <3>2, <4>1, <4>2 DEF LoadDig, BootOf
    <3> QED BY <1>8, <3>1, <3>2 DEF LoadDig
  <2> QED BY <1>1, <2>1, <2>2 DEF Underway
<1>9. ASSUME NEW r \in Reads, ReadFails(r) \/ ReadAsset(r)
      PROVE  Underway' \/ (env'.host = "loader" /\ boot' = "gaveUp")
  <2>1. r \in Assets
    BY <1>9 DEF ReadFails, ReadAsset, CoverOf
  <2>2. r # Entry
    BY <2>1, PageAssumption DEF Elements
  <2>3. env' = env /\ due' = due /\ cover = "loading" /\ boot' = boot
    BY <1>9, <2>1, <2>2 DEF ReadFails, ReadAsset, CoverOf, BootOf, world
  <2>4. \A x \in Reads \ Assets : read'[x] = read[x]
    BY <1>9, <2>1 DEF ReadFails, ReadAsset, IInv, TypeOK
  <2> QED BY <1>1, <2>3, <2>4 DEF Underway
<1>10. ~ShowImage /\ \A r \in Reads : ~ReadHtml(r) /\ ~Download(r) /\ ~Leave(r)
  BY DEF ReadHtml, swapDocument, ShowImage, Download, Leave, HandedToBrowser
<1>11. ASSUME NEW x \in Elements, Parse(x) \/ Add(x)
       PROVE  Underway' \/ (env'.host = "loader" /\ boot' = "gaveUp")
  <2>1. env' = env /\ due' = due /\ cover = "loading" /\ boot' = boot
    BY <1>11 DEF Parse, Add, world
  <2>2. \A r \in Reads \ Assets : read'[r] = read[r]
    BY <1>11 DEF Parse, Add, Rewrite, StartReads
  <2> QED BY <1>1, <2>1, <2>2 DEF Underway
<1>12. ASSUME NEW x \in Elements, Click(x)
       PROVE  Underway' \/ (env'.host = "loader" /\ boot' = "gaveUp")
  <2>1. x \in Reads \ Assets
    BY <1>12, PageAssumption DEF Click, Reads, Elements
  <2>2. read'[x] # "none"
    BY <1>12, <2>1 DEF Click, StartReads, Stage
  <2> QED BY <2>1, <2>2 DEF Underway
<1> QED BY <1>2, <1>3, <1>4, <1>5, <1>6, <1>7, <1>8, <1>9, <1>10, <1>11, <1>12 DEF Next, BootStep, ReadEnds

-----------------------------------------------------------------------------
(* The invariant. *)

LEMMA TypesSplit ==
    ASSUME TypeOK
    PROVE  ControlTypes /\ Switches /\ PageTypes
<1>1. Switches
  BY Zenon DEF TypeOK, Switches
<1>2. due \in Nat
  BY PageAssumption, FS_CardinalityType DEF TypeOK
<1> QED BY <1>1, <1>2 DEF TypeOK, ControlTypes, PageTypes, ReadTypes, ElementTypes

LEMMA TypesJoined == ControlTypes /\ Switches /\ PageTypes /\ TimersBounded => TypeOK
<1> SUFFICES ASSUME ControlTypes, Switches, PageTypes, TimersBounded PROVE TypeOK
  OBVIOUS
<1>1. due \in 0 .. MaxTimers + Cardinality(Anchors)
  <2>1. Cardinality(Following) \in Nat /\ Cardinality(Anchors) \in Nat
    BY FollowingCounts DEF Following
  <2> QED BY <2>1, PageAssumption DEF TimersBounded, PageTypes
<1> QED BY <1>1 DEF TypeOK, ControlTypes, Switches, PageTypes, ReadTypes, ElementTypes

LEMMA IInvNext == IInv /\ [Next]_vars => IInv'
<1> SUFFICES ASSUME IInv, [Next]_vars PROVE IInv'
  OBVIOUS
<1>1. CASE Next
  <2>1. ControlTypes /\ Switches /\ PageTypes
    BY TypesSplit DEF IInv
  <2>2. ControlTypes' /\ Switches' /\ PageTypes' /\ TimersBounded'
    BY <1>1, <2>1, ControlTypesStep, SwitchesStep, PageTypesStep, TimersStep
  <2>3. TypeOK'
    BY <2>2, TypesJoined, PTL
  <2> QED BY <1>1, <2>1, <2>2, <2>3, BeforeTier2Step, UntoldStep, ShellStep, LoadingStep DEF IInv
<1>2. CASE UNCHANGED vars
  <2> USE <1>2 DEF vars, world, page
  <2>1. TypeOK'
    BY Zenon DEF IInv, TypeOK
  <2>2. TimersBounded'
    BY DEF IInv, TimersBounded, Following
  <2>3. BeforeTier2' /\ Untold' /\ ShellAtRest'
    BY DEF IInv, BeforeTier2, Untold, ShellAtRest, NoReads, NoElements
  <2>4. NeverBlank' /\ LoadingMeansLoading'
    BY DEF IInv, NeverBlank, LoadingMeansLoading
  <2> QED BY <2>1, <2>2, <2>3, <2>4 DEF IInv
<1> QED BY <1>1, <1>2

LEMMA Invariance == Spec => []IInv
BY IInvInit, IInvNext, PTL DEF Spec

-----------------------------------------------------------------------------
(* What is waited for is under way. *)

\* Reads wait for a wasm that is being loaded, and tier 2 for its entry.
Waiting ==
    /\ \A r \in Reads : read[r] = "wasm" => dig = "pending"
    /\ boot = "inpage" <=> read[Entry] # "none"

\* Asking for a read makes it wait for the wasm, or go on if the wasm is there.
LEMMA StartReadsWaits ==
    ASSUME dig \in {"none", "pending", "ok"}, NEW rs, StartReads(rs),
           \A r \in Reads : read[r] = "wasm" => dig = "pending"
    PROVE  /\ \A r \in Reads : read'[r] = "wasm" => dig' = "pending"
           /\ \A r \in Reads : read'[r] # "none" <=> read[r] # "none" \/ r \in rs
BY DEF StartReads, Stage

\* The elements of a page, or the links in it, are other reads than that of the entry.
LEMMA EntryIsNoElement == Entry \in Reads /\ Entry \notin Elements /\ Entry \notin Assets
BY PageAssumption DEF Reads, Elements

LEMMA WaitingInit == Init => Waiting
BY EntryIsNoElement DEF Init, Waiting, NoReads

LEMMA WaitingStep ==
    ASSUME IInv, Waiting, Next
    PROVE  Waiting'
<1> DEFINE Waits == \A r \in Reads : read[r] = "wasm" => dig = "pending"
<1>1. /\ Waits /\ (boot = "inpage" <=> read[Entry] # "none")
      /\ dig \in {"none", "pending", "ok"}
      /\ read \in [Reads -> {"none", "wasm", "fetch"}]
  BY DEF IInv, Waiting, TypeOK
<1> SUFFICES Waits' /\ (boot' = "inpage" <=> read'[Entry] # "none")
  BY DEF Waiting
<1>2. Entry \in Reads /\ Entry \notin Elements /\ Entry \notin Assets
  BY EntryIsNoElement
<1>3. CASE Booting
  <2>1. UNCHANGED <<patched, dig, read, el, due>>
    BY <1>3, BootingIsQuiet
  <2>2. boot' = "inpage" <=> boot = "inpage"
    <3>1. CASE runTier2 /\ (Start \/ Register \/ NoControl \/ NotServed)
      <4>1. boot \notin Tier2Boots
        BY <3>1 DEF Start, Register, NoControl, NotServed, Tier2Boots
      <4>2. patched' = TRUE
        BY <3>1 DEF runTier2
      <4> QED BY <2>1, <4>1, <4>2, BootingIsIdle
    <3>2. CASE ~ (runTier2 /\ (Start \/ Register \/ NoControl \/ NotServed))
      BY <1>3, <3>2 DEF Booting, LoaderTold, PageTold, Boot, StandDown, PollAgain, GiveUp, InvalidUrn,
         Claim, Control, Start, Register, NoControl, NotServed
    <3> QED BY <3>1, <3>2
  <2> QED BY <1>1, <2>1, <2>2
<1>4. CASE Tier2Begins
  <2>1. StartReads({Entry}) /\ boot' = "inpage"
    BY <1>4 DEF Tier2Begins, runTier2
  <2> QED BY <1>1, <1>2, <2>1, StartReadsWaits
<1>5. CASE Reload
  BY <1>2, <1>5 DEF Reload, NoReads
<1>6. CASE Served
  BY <1>1, <1>6 DEF Served
<1>7. CASE LoadDig
  <2>1. \A r \in Reads : read'[r] # "wasm"
    BY <1>7 DEF LoadDig
  <2>2. boot' = "inpage" <=> read'[Entry] # "none"
    <3>1. CASE dig' = "ok"
      BY <1>1, <1>2, <1>7, <3>1 DEF LoadDig
    <3>2. CASE dig' = "none"
      <4>1. read' = [r \in Reads |-> IF read[r] = "wasm" THEN "none" ELSE read[r]]
        BY <1>7, <3>2 DEF LoadDig
      <4>2. boot' = IF read[Entry] = "wasm" THEN "error" ELSE boot
        BY <1>2, <1>7, <3>2 DEF LoadDig, BootOf
      <4> QED BY <1>1, <1>2, <4>1, <4>2
    <3> QED BY <1>7, <3>1, <3>2 DEF LoadDig
  <2> QED BY <1>1, <2>1, <2>2
<1>8. CASE Scan
  <2> DEFINE xs == {x \in Elements : el[x] = "unseen"}
  <2>1. boot' = boot /\ StartReads(xs \cap Assets)
    BY <1>8 DEF Scan, Rewrite
  <2> HIDE DEF xs
  <2> QED BY <1>1, <1>2, <2>1, StartReadsWaits
<1>9. ASSUME NEW r \in Reads, ReadDone(r) \/ (r = Entry /\ ShowImage)
      PROVE  Waits' /\ (boot' = "inpage" <=> read'[Entry] # "none")
  <2>1. dig' = dig /\ read[r] = "fetch"
    BY <1>9 DEF ReadDone, ReadFails, ReadHtml, ShowImage, Download, HandedToBrowser, ReadAsset
  <2>2. /\ read'[r] = "none"
        /\ \A x \in Reads : read'[x] \in {read[x], "none"}
        /\ r # Entry => read'[Entry] = read[Entry]
    BY <1>1, <1>2, <1>9 DEF ReadDone, ReadFails, ReadHtml, ShowImage, Download, ReadAsset, swapDocument
  <2>3. boot' \in IF r = Entry THEN {"error", "shown"} ELSE {boot}
    BY <1>2, <1>9
    DEF ReadDone, ReadFails, ReadHtml, ShowImage, Download, HandedToBrowser, ReadAsset, BootOf, BootAfter
  <2> QED BY <1>1, <2>1, <2>2, <2>3
<1>12. ASSUME NEW r \in Reads, Leave(r)
       PROVE  Waits' /\ (boot' = "inpage" <=> read'[Entry] # "none")
  BY <1>2, <1>12 DEF Leave, NoReads
<1>10. ASSUME NEW x \in Elements, Parse(x) \/ Add(x)
       PROVE  Waits' /\ (boot' = "inpage" <=> read'[Entry] # "none")
  <2>1. boot' = boot
    BY <1>10 DEF Parse, Add
  <2>2. StartReads({x} \cap Assets) \/ (read' = read /\ dig' = dig)
    BY <1>10 DEF Parse, Add, Rewrite
  <2>3. Waits' /\ (read'[Entry] # "none" <=> read[Entry] # "none")
    BY <1>1, <1>2, <2>2, StartReadsWaits
  <2> QED BY <1>1, <2>1, <2>3
<1>11. ASSUME NEW x \in Elements, Click(x)
       PROVE  Waits' /\ (boot' = "inpage" <=> read'[Entry] # "none")
  <2>1. boot' = boot /\ StartReads({x}) /\ x # Entry
    BY <1>2, <1>11 DEF Click
  <2> QED BY <1>1, <1>2, <2>1, StartReadsWaits
<1> HIDE DEF Waits
<1> QED BY <1>2, <1>3, <1>4, <1>5, <1>6, <1>7, <1>8, <1>9, <1>10, <1>11, <1>12, StepsSorted

-----------------------------------------------------------------------------
(* Boot goes forward. *)

LEMMA AheadIs ==
    ASSUME polls \in 0 .. MaxPolls
    PROVE  /\ Ahead \in Nat
           /\ boot = "script" => Ahead = MaxPolls + 6
           /\ boot = "poll" => Ahead = MaxPolls - polls + 5 /\ Ahead > 4
           /\ boot = "register" => Ahead = 4
           /\ boot = "ready" => Ahead = 3
           /\ boot = "entry" => Ahead = 2
           /\ boot = "inpage" => Ahead = 1
           /\ boot \in Settled => Ahead = 0
BY PageAssumption DEF Ahead, Settled

\* The part of the flag: it forbids another load, and nothing but control of the page takes it back.
LEMMA AgainIs ==
    /\ Again \in {0, MaxPolls + 6}
    /\ boot \notin MayReload \/ flag = TRUE => Again = 0
    /\ boot \in MayReload /\ flag = FALSE => Again = MaxPolls + 6
BY DEF Again

LEMMA AgainKept ==
    ASSUME flag' = flag, boot \in MayReload, boot' \in MayReload
    PROVE  Again' = Again
BY Zenon DEF Again

LEMMA Lower ==
    ASSUME NEW a \in Nat, NEW b \in Nat, NEW c \in Nat, NEW d \in Nat, c < a, d <= b
    PROVE  c + d < a + b
OBVIOUS

LEMMA BootStepAdvances ==
    ASSUME IInv, Waiting, Next
    PROVE  UNCHANGED <<boot, polls>> \/ ToDo' < ToDo
<1>1. /\ MaxPolls \in Nat /\ polls \in 0 .. MaxPolls /\ polls' \in 0 .. MaxPolls
      /\ boot = "inpage" <=> read[Entry] # "none"
  <2>1. ControlTypes'
    BY TypesSplit, ControlTypesStep DEF IInv
  <2> QED BY <2>1, PageAssumption DEF IInv, TypeOK, Waiting, ControlTypes
<1>2. Again \in Nat /\ Again' \in Nat
  BY <1>1, AgainIs DEF Again
<1>3. Ahead \in Nat /\ Ahead' \in Nat
  BY <1>1, AheadIs, PageAssumption DEF Ahead
<1>4. CASE Boot \/ StandDown \/ PollAgain \/ GiveUp \/ InvalidUrn \/ Start \/ Register
  <2>1. /\ boot \in {"script", "poll", "register"}
        /\ boot' \in {"poll", "register", "ready", "inpage"} \cup Settled
        /\ flag' = flag
    BY <1>4 DEF Boot, StandDown, PollAgain, GiveUp, InvalidUrn, Start, Register, runTier2, world, Settled
  <2>2. Again' <= Again
    <3>1. CASE boot' \in MayReload
      BY <1>2, <2>1, <3>1, AgainKept DEF MayReload
    <3>2. CASE boot' \notin MayReload
      BY <1>2, <3>2 DEF Again
    <3> QED BY <3>1, <3>2
  <2>3. Ahead' < Ahead
    <3>1. CASE Register
      <4>1. boot = "register" /\ boot' \in {"ready", "inpage"}
        BY <3>1 DEF Register, runTier2
      <4> QED BY <4>1 DEF Ahead
    <3>2. CASE Boot \/ StandDown \/ PollAgain \/ GiveUp \/ InvalidUrn \/ Start
      BY <1>1, <3>2 DEF Ahead, Boot, StandDown, PollAgain, GiveUp, InvalidUrn, Start, runTier2
    <3> QED BY <1>4, <3>1, <3>2
  <2> QED BY <1>2, <1>3, <2>2, <2>3, Lower DEF ToDo
<1>5. CASE Reload
  <2>1. Again = MaxPolls + 6 /\ Ahead = 3
    BY <1>1, <1>5, AgainIs, AheadIs DEF Reload, MayReload, Again
  <2>2. Again' = 0 /\ Ahead' = MaxPolls + 6
    BY <1>5 DEF Reload, LeaveFlag, Again, Ahead
  <2> QED BY <1>1, <2>1, <2>2 DEF ToDo
<1>6. CASE NoControl \/ Control \/ Served \/ NotServed
  <2>1. boot' \notin MayReload
    BY <1>6 DEF NoControl, Control, Served, NotServed, runTier2, MayReload
  <2>2. Again' <= Again
    BY <1>2, <2>1 DEF Again
  <2>3. Ahead' < Ahead
    BY <1>6 DEF Ahead, NoControl, Control, Served, NotServed, runTier2
  <2> QED BY <1>2, <1>3, <2>2, <2>3, Lower DEF ToDo
<1>7. CASE LoadDig \/ ShowImage \/ \E r \in Reads : ReadDone(r) \/ Leave(r)
  <2>1. polls' = polls /\ (boot' = boot \/ (boot' \in {"error", "shown"} /\ boot = "inpage"))
    <3>1. CASE LoadDig
      BY <1>1, <3>1 DEF LoadDig, BootOf, world
    <3>2. CASE ShowImage \/ \E r \in Reads : ReadDone(r) \/ Leave(r)
      BY <1>1, <3>2 DEF ReadDone, ReadFails, ReadHtml, ShowImage, Download, HandedToBrowser, Leave, ReadAsset,
                        BootOf, BootAfter
    <3> QED BY <1>7, <3>1, <3>2
  <2>2. CASE boot' \in {"error", "shown"} /\ boot = "inpage"
    <3>1. Again = 0 /\ Again' = 0 /\ Ahead = 1 /\ Ahead' = 0
      BY <2>2 DEF Again, MayReload, Ahead
    <3> QED BY <3>1 DEF ToDo
  <2> QED BY <2>1, <2>2
<1>8. CASE LoaderTold \/ PageTold \/ Claim \/ Scan \/ \E x \in Elements : Parse(x) \/ Add(x) \/ Click(x)
  BY <1>8 DEF LoaderTold, PageTold, Claim, Scan, Parse, Add, Click
<1> QED BY <1>4, <1>5, <1>6, <1>7, <1>8 DEF Next, BootStep, ReadEnds, ReadDone

LEMMA WaitingStutter == Waiting /\ UNCHANGED vars => Waiting'
BY DEF Waiting, vars, page

LEMMA Awaited == Spec => []Waiting
<1>1. IInv /\ Waiting /\ [Next]_vars => Waiting'
  BY WaitingStep, WaitingStutter
<1> QED BY <1>1, WaitingInit, Invariance, PTL DEF Spec

-----------------------------------------------------------------------------
(* The results. *)

\* The state of the page has its types, and no more swap timers are ever set than clicks were allowed
\* with and links there are: each followed link of swapDocumentTier2 sets one, and the scan of
\* another document takes it back.
THEOREM PageTypeCorrect == Spec => []TypeOK
<1>1. IInv => TypeOK
  BY DEF IInv
<1> QED BY <1>1, Invariance, PTL

\* The loader shell is painted as long as it is the document: no fallback, failure or surrender of
\* boot and start takes its card away before there is something else to show.
THEOREM ShellIsNeverBlank == Spec => []NeverBlank
<1>1. IInv => NeverBlank
  BY DEF IInv
<1> QED BY <1>1, Invariance, PTL

\* The loading card of injectOverlay never stands over a page for which nothing is under way any more,
\* whatever ends in which order, but for a shell whose boot gave up on config.json.
THEOREM LoadingIsTrue == Spec => []LoadingMeansLoading
<1>1. IInv => LoadingMeansLoading
  BY DEF IInv
<1> QED BY <1>1, Invariance, PTL

\* The snippet cannot reload the page for ever, nor fall from one tier to the other and back: each
\* stage of boot leaves less to do, over the one reload that the flag in sessionStorage allows.
THEOREM BootGoesForward == Spec => BootAdvances
<1>1. IInv /\ Waiting /\ [Next]_vars => [UNCHANGED <<boot, polls>> \/ ToDo' < ToDo]_vars
  BY BootStepAdvances
<1> QED BY <1>1, Awaited, Invariance, PTL DEF Spec, BootAdvances

=============================================================================
