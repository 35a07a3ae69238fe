----------------------------- MODULE MCCssAuth -----------------------------
(***************************************************************************)
(* Instances of CssAuth for TLC.  The hosts, nonces and titles are model   *)
(* values, given in the configurations.                                    *)
(***************************************************************************)
EXTENDS CssAuth, TLC

\* Every command may fail, with or without having been carried out.
AllFaults ==
    {"ReadCopyright", "ReportAgid", "LostAgid", "InvalidateAgid", "SendChallenge",
     "ReportKey1", "Key1", "ReportChallenge", "SendKey2", "ReadDiscKey",
     "ReadTitleKey", "ReportASF", "Region"}

\* The failures after which css.c invalidates the AGID.
CleanedUpFaults ==
    {"ReadCopyright", "ReportAgid", "SendChallenge", "ReportKey1", "Key1",
     "ReportChallenge", "SendKey2", "ReadTitleKey", "ReportASF"}

AllMethods == {"KEY", "DISC", "TITLE"}
KeyMethod == {"KEY"}

NoneHung == {{}}
AnyHung == SUBSET Agids

\* Hosts and nonces are only ever compared for equality.
Symmetry == Permutations(Hosts) \cup Permutations(Nonces)

=============================================================================
