------------------------------ MODULE MCServices ------------------------------
(***************************************************************************)
(* Sessions, SecondFactor, Companies, Federation, Tenancy and Voice for    *)
(* TLC.  They share no variable, so their composition has no               *)
(* behaviour that one of them does not have: a run looks at one part at a  *)
(* time, chosen in the initial state among Parts, and leaves the variables *)
(* of the others at rest.                                                  *)
(***************************************************************************)
EXTENDS Sessions, SecondFactor, Companies, Federation, Tenancy, Voice, TLC

CONSTANTS Parts, a, b, d1, d2, p, q, it, hr, m1, m2, x1, x2, c1, c2

VARIABLE part

vars == <<sessionsVars, secondFactorVars, companiesVars, federationVars,
          tenancyVars, voiceVars, part>>

MCDomainOf == (m1 :> d1) @@ (m2 :> d2)
MCClaims == {<<a, d1>>, <<b, d1>>}
MCControls == {<<a, d1>>}
MCOffers == {<<a, p>>, <<a, q>>, <<b, p>>}
MCDeptRows == {<<a, it>>, <<b, it>>, <<b, hr>>}

\* The calls are alike in every part, and so are sessions.
CallsAndTickets == Permutations({c1, c2}) \cup Permutations({x1, x2})

AtRest == /\ part # "sessions" => user.role = "EMPLOYEE"
          /\ part # "secondFactor" => ~required
          /\ part # "tenancy" => scoping
          /\ part # "voice" => offered = {}

MCInit == /\ part \in Parts
          /\ SessionsInit /\ SecondFactorInit /\ CompaniesInit /\ FederationInit
          /\ TenancyInit /\ VoiceInit
          /\ AtRest

MCNext ==
    \/ /\ part = "sessions" /\ SessionsNext
       /\ UNCHANGED <<secondFactorVars, companiesVars, federationVars, tenancyVars, voiceVars, part>>
    \/ /\ part = "secondFactor" /\ SecondFactorNext
       /\ UNCHANGED <<sessionsVars, companiesVars, federationVars, tenancyVars, voiceVars, part>>
    \/ /\ part = "companies" /\ CompaniesNext
       /\ UNCHANGED <<sessionsVars, secondFactorVars, federationVars, tenancyVars, voiceVars, part>>
    \/ /\ part = "federation" /\ FederationNext
       /\ UNCHANGED <<sessionsVars, secondFactorVars, companiesVars, tenancyVars, voiceVars, part>>
    \/ /\ part = "tenancy" /\ TenancyNext
       /\ UNCHANGED <<sessionsVars, secondFactorVars, companiesVars, federationVars, voiceVars, part>>
    \/ /\ part = "voice" /\ VoiceNext
       /\ UNCHANGED <<sessionsVars, secondFactorVars, companiesVars, federationVars, tenancyVars, part>>

MCSpec == MCInit /\ [][MCNext]_vars

\* The types of all parts.
ServicesTypeOK == /\ SessionsTypeOK /\ SecondFactorTypeOK /\ CompaniesTypeOK
                  /\ FederationTypeOK /\ TenancyTypeOK /\ VoiceTypeOK
=============================================================================
