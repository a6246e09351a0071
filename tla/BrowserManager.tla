---------------------------- MODULE BrowserManager ----------------------------
(***************************************************************************)
(* BrowserManager (parsers/common/browser.py): the Chrome a collector      *)
(* drives.  Starting it may fail, before the process exists or after; so   *)
(* may quitting it, and it may die at any time without the manager         *)
(* noticing: _driver then stays set and every load fails, until a rotation *)
(* or a captcha replaces it.                                               *)
(***************************************************************************)
EXTENDS Integers

CONSTANTS
    RotateEvery,  \* rotate_ua_every
    MaxFaults     \* bound on failing starts and quits, and on deaths

ASSUME BrowserAssumption == RotateEvery \in Nat /\ RotateEvery > 1 /\ MaxFaults \in Nat

VARIABLES
    driver,      \* _driver: "none", or "up" or "dead" as Chrome is
    page_count,  \* _page_count, which is read modulo RotateEvery only
    chromes,     \* Chrome processes that run
    strays,      \* history: failures that left one running without a driver
    dead_loads,  \* history: loads begun with the present driver and it dead
    faults

browser == <<driver, page_count, chromes, strays, dead_loads, faults>>

BrowserType ==
    /\ driver \in {"none", "up", "dead"}
    /\ page_count \in 0..RotateEvery-1
    /\ chromes \in Nat /\ strays \in Nat
    /\ dead_loads \in Nat
    /\ faults \in 0..MaxFaults

BrowserInit ==
    /\ driver = "none"
    /\ page_count = 0
    /\ chromes = 0 /\ strays = 0
    /\ dead_loads = 0
    /\ faults = 0

\* What may go wrong with Chrome: nothing, a failure, one that leaves it running.
Outcomes == {"ok", "failed", "stray"}
Fault(outcome) == IF outcome = "ok" THEN 0 ELSE 1
Stray(outcome) == IF outcome = "stray" THEN 1 ELSE 0

\* quit() on a Chrome that died fails too, and the error is swallowed.
QuitOutcomes == IF driver = "up" THEN {"ok", "stray"} ELSE {"ok"}
Running == IF driver = "up" THEN 1 ELSE 0

\* start() with no driver.  It fails before there is a Chrome, or in
\* _apply_stealth or while its time-outs are set, which may leave it running.
Start(launch) ==
    /\ driver = "none"
    /\ faults + Fault(launch) <= MaxFaults
    /\ driver' = IF launch = "ok" THEN "up" ELSE "none"
    /\ chromes' = chromes + (IF launch = "failed" THEN 0 ELSE 1)
    /\ strays' = strays + Stray(launch)
    /\ faults' = faults + Fault(launch)
    /\ dead_loads' = 0

Stop(quit) ==
    /\ quit \in QuitOutcomes
    /\ faults + Fault(quit) <= MaxFaults
    /\ driver' = "none"
    /\ chromes' = chromes - Running + Stray(quit)
    /\ strays' = strays + Stray(quit)
    /\ faults' = faults + Fault(quit)
    /\ dead_loads' = 0

\* Mutant: the old Chrome is not quit.
RestartOnly(quit, launch) ==
    /\ quit \in QuitOutcomes
    /\ faults + Fault(quit) + Fault(launch) <= MaxFaults
    /\ driver' = IF launch = "ok" THEN "up" ELSE "none"
    /\ chromes' = chromes + (IF launch = "failed" THEN 0 ELSE 1)
    /\ strays' = strays + Stray(launch)
    /\ faults' = faults + Fault(quit) + Fault(launch)
    /\ dead_loads' = 0

\* restart_with_new_ua: stop, then start.
Restart(quit, launch) ==
    /\ quit \in QuitOutcomes
    /\ faults + Fault(quit) + Fault(launch) <= MaxFaults
    /\ driver' = IF launch = "ok" THEN "up" ELSE "none"
    /\ chromes' = chromes - Running + Stray(quit) + (IF launch = "failed" THEN 0 ELSE 1)
    /\ strays' = strays + Stray(quit) + Stray(launch)
    /\ faults' = faults + Fault(quit) + Fault(launch)
    /\ dead_loads' = 0

\* Mutant: the page is counted after it was loaded, so failures do not count.
OpenPageUncounted(quit, launch) ==
    /\ IF driver = "dead"
       THEN /\ quit = "ok" /\ launch = "ok"
            /\ dead_loads' = dead_loads + 1
            /\ UNCHANGED <<driver, page_count, chromes, strays, faults>>
       ELSE /\ page_count' = (page_count + 1) % RotateEvery
            /\ IF page_count' = 0 THEN Restart(quit, launch)
               ELSE /\ quit = "ok"
                    /\ IF driver = "none" THEN Start(launch)
                       ELSE launch = "ok" /\ UNCHANGED <<driver, chromes, strays,
                                                         faults, dead_loads>>

\* get_page up to driver.get: the rotation, or the lazy start of the driver.
OpenPage(quit, launch) ==
    /\ page_count' = (page_count + 1) % RotateEvery
    /\ IF page_count' = 0 THEN Restart(quit, launch)
       ELSE /\ quit = "ok"
            /\ IF driver = "none" THEN Start(launch)
               ELSE /\ launch = "ok"
                    /\ dead_loads' = dead_loads + (IF driver = "dead" THEN 1 ELSE 0)
                    /\ UNCHANGED <<driver, chromes, strays, faults>>

\* Chrome crashes, or its window is closed.
ChromeDies ==
    /\ driver = "up"
    /\ faults < MaxFaults
    /\ driver' = "dead"
    /\ chromes' = chromes - 1
    /\ faults' = faults + 1
    /\ dead_loads' = 0
    /\ UNCHANGED <<page_count, strays>>
=============================================================================
