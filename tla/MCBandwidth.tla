---------------------------- MODULE MCBandwidth ----------------------------
EXTENDS Bandwidth
\* Two core types, the second with fewer and smaller caches.
MCCaches == << <<1, 3>>, <<2>> >>
=============================================================================
