----------------------------- MODULE MCStorageUnit -----------------------------
EXTENDS StorageUnit

\* The unit of the README and variations: rates, junk, hauling and labour.
MCUnits == [premiumRate : {0, 15, 50}, taxRate : {0, 7, 50}, deposit : {10000},
            contents : {20000, 59999}, sellable : {30, 85, 100}, miles : {0, 407},
            loads : {1, 2}, disposal : {0, 4025}, labor : {0, 37}]

\* Cent by cent at the low end, where roundings weigh most, and around the middle.
MCBids == 0..12 \cup 9995..10005 \cup {20000, 33333, 59999}

=============================================================================
