----------------------------- MODULE MCLiveParts -----------------------------
EXTENDS LiveParts

MCTemplate == <<"direct", "tcp", "udp">>
=============================================================================
