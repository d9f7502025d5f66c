----------------------------- MODULE MCScreens -----------------------------
(* Listing, Composer, Console, Browser and Payments, each on a small instance.  They   *)
(* share no state, so one run takes all of them: a behaviour is one part's, and the    *)
(* others stay as they began.                                                          *)
EXTENDS MCPayments, Listing, Composer, Console, Browser, TLC

CONSTANT MaxUnderway   \* bound: requests of a tab under way

VARIABLE part

screensVars == <<part, vars, listingVars, composerVars, consoleVars, browserVars>>

ScreensInit ==
    /\ part \in {"payments", "listing", "composer", "console", "browser"}
    /\ Init /\ (part # "payments" => rule = strict)
    /\ ListingInit /\ (part # "listing" => screen = "history")
    /\ ComposerInit /\ (part # "composer" => open = "web")
    /\ ConsoleInit /\ (part # "console" => panel = "switch")
    /\ BrowserInit
    /\ (part # "browser" => site = "dashboard" /\ jar = Nobody /\ keys = Absent)

ScreensNext ==
    /\ part' = part
    /\ \/ part = "payments" /\ Next
          /\ UNCHANGED <<listingVars, composerVars, consoleVars, browserVars>>
       \/ part = "listing" /\ ListingNext
          /\ UNCHANGED <<vars, composerVars, consoleVars, browserVars>>
       \/ part = "composer" /\ ComposerNext
          /\ UNCHANGED <<vars, listingVars, consoleVars, browserVars>>
       \/ part = "console" /\ ConsoleNext
          /\ UNCHANGED <<vars, listingVars, composerVars, browserVars>>
       \/ part = "browser" /\ BrowserNext
          /\ UNCHANGED <<vars, listingVars, composerVars, consoleVars>>

ScreensSpec == ScreensInit /\ [][ScreensNext]_screensVars

\* Once fetches have overlapped, PagesAreLossless says nothing until a filter is
\* chosen anew: what is on the screen need not grow meanwhile.
Short == overlapped => Len(shown) = 0

\* Two requests of a tab overlap, never three.
Few == Cardinality(underway) <= MaxUnderway

\* Fetch and Ask are one set of model values.
Symmetry == Permutations(Fetch)
=============================================================================
