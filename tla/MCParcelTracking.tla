-------------------------- MODULE MCParcelTracking --------------------------
EXTENDS ParcelTracking

\* The parcel is announced to its carrier and then delivered.
Delivered == <<"delivered">>
=============================================================================
