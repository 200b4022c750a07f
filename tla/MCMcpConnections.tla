-------------------------- MODULE MCMcpConnections --------------------------
(* Instances of McpConnections for TLC.                                     *)
EXTENDS McpConnections, TLC

CONSTANTS p1, base, variant, c1, c2

\* A profile with the connection of one of its databases.
MCProfileOf == base :> p1 @@ variant :> p1

\* Two calls for one key, or for two keys of the profile.
MCAsked == {f \in [Calls -> Keys] : f[c1] = base}

MCTold == [Discs -> Profiles]
=============================================================================
