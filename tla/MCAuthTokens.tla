----------------------------- MODULE MCAuthTokens -----------------------------
(***************************************************************************)
(* Instances of AuthTokens for TLC.  In the scenario "races" one device    *)
(* has two requests under way, the user may be banned, and the constants   *)
(* are those of the configuration; in "honest" every device asks one thing *)
(* at a time and retries in time; d1 is then the first to log in.          *)
(***************************************************************************)
EXTENDS AuthTokens

CONSTANTS d1, Hurried       \* the device, and the clock's bound, of "races"

VARIABLE scenario

Honest == INSTANCE AuthTokens WITH
    Punctual <- TRUE, MaxFlight <- 1, Bannable <- {},
    AccessTTL <- AccessTTL + 1, RefreshTTL <- RefreshTTL + 1

MCInit == Init /\ scenario \in {"races", "honest"}
MCNext ==
    /\ UNCHANGED scenario
    /\ \/ /\ scenario = "races" /\ Next /\ now' <= Hurried
          /\ \A d \in Devices \ {d1} : attempt'[d] = None
       \/ /\ scenario = "honest" /\ Honest!Next
          /\ attempt' # attempt /\ tokens = <<>> => attempt'[d1] # None
MCSpec == MCInit /\ [][MCNext]_<<vars, scenario>>

\* HonestDeviceKeepsToken, of the devices it is about.
HonestKeepsToken == scenario = "honest" => HonestDeviceKeepsToken
=============================================================================
