--------------------------- MODULE MCBrowseSession ---------------------------
(***************************************************************************)
(* BrowseSession for TLC.  Either one session with a TIDAL start URL, any  *)
(* profile and a relay that may be started by hand; or two sessions in any *)
(* overlap that never look at the profile.                                 *)
(***************************************************************************)
EXTENDS BrowseSession

CONSTANT Tidal  \* the session with a TIDAL start URL

MCInit ==
    /\ NoFiles
    /\ orphan = FALSE
    /\ \/ /\ server = [p \in Servers |-> "none"]
          /\ profile \in Profiles
          /\ session = [s \in Sessions |->
                           IF s = Tidal THEN Record("none", Nobody, TRUE)
                           ELSE Record("ended", 0, FALSE)]
       \/ /\ server = [p \in Servers |-> IF p = User THEN "gone" ELSE "none"]
          /\ profile = EmptyProfile
          /\ session = [s \in Sessions |-> Record("none", Nobody, FALSE)]

MCSpec == MCInit /\ [][Next]_vars /\ SupervisionIsFair

==============================================================================
