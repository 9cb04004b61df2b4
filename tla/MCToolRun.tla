------------------------------ MODULE MCToolRun -----------------------------
(***************************************************************************)
(* Instance of ToolRun for TLC, with the stages of scan_profiles.py.         *)
(***************************************************************************)
EXTENDS ToolRun

\* The passive profile for a domain and for the rest, and the active ones.
ProfilePlans == {<<"subfinder", "osint", "dnsx">>, <<"osint", "dnsx">>,
                 <<"dnsx", "nmap", "httpx", "katana", "nuclei">>}
===========================================================================
