--------------------------- MODULE MCProvisioning ---------------------------
EXTENDS Provisioning
\* The programs that provide for the system, the direct and the exchange kind of
\* those that clean up after themselves, some of both kinds, and the one with a
\* virtual host of its own.
MCCasts ==
  {Domains,
   {"direct_service", "direct_request", "direct_listener"},
   {"exchange_service", "exchange_request", "exchange_listener"},
   {"direct_listener", "direct_producer", "exchange_producer"},
   {"direct_service", "exchange_service"},
   {"perms"}}
=============================================================================
