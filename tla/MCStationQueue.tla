--------------------------- MODULE MCStationQueue ---------------------------
EXTENDS StationQueue
TwoSales == {1, 2}
=============================================================================
