-------------------------------- MODULE MCServer -------------------------------
(***************************************************************************)
(* An instance of ServerLifecycle for TLC.                                 *)
(***************************************************************************)
EXTENDS ServerLifecycle

\* The configuration changes without TLS, under either provider; the certificate
\* beside a configuration that stays.
MCSettings ==
    { <<"FILE", FALSE, 3>>, <<"GRPC_XDS_SOTW", FALSE, 3>>, <<"FILE", TRUE, 1>> }
================================================================================
