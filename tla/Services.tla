------------------------------ MODULE Services ------------------------------
(***************************************************************************)
(* Three services of the server side by side: the bots that pretend to be  *)
(* users, the voice of the tables, and what a player at a table is shown.  *)
(* Each has its own state, and no step of one touches another.             *)
(***************************************************************************)
EXTENDS VirtualBots

CONSTANTS
    Users,      \* who may talk at a table
    Conns, MaxQueue     \* of module Screen

VARIABLES
    open, table, auth, presence, muted, tearing, evicting,          \* Voice
    index, socket, user, login, wire, shown, game, lapse            \* Screen

Voice == INSTANCE Voice
Screen == INSTANCE Screen

voiceVars == <<open, table, auth, presence, muted, tearing, evicting>>
screenVars == <<index, socket, user, login, wire, shown, game, lapse>>
servicesVars == <<vars, voiceVars, screenVars>>

VoiceStep == Voice!Next /\ UNCHANGED <<vars, screenVars>>
ScreenStep == Screen!Next /\ UNCHANGED <<vars, voiceVars>>

ServicesInit == Init /\ Voice!Init /\ Screen!Init
ServicesNext ==
    \/ Next /\ UNCHANGED <<voiceVars, screenVars>>
    \/ VoiceStep \/ ScreenStep
ServicesSpec == ServicesInit /\ [][ServicesNext]_servicesVars
-----------------------------------------------------------------------------
(* Properties.                                                             *)

ServicesTypeOK == TypeOK /\ Voice!TypeOK /\ Screen!TypeOK
VoiceOfMembers == Voice!VoiceOfMembers
ScreenFollows == Screen!ScreenFollows
=============================================================================
