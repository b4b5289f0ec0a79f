\* Three commands about one release, on the builds whose assets are .tar.gz files.
SPECIFICATION Spec
CONSTANTS
    Releases = {r1}
    Bundled = {r1}
    Tasks = {t1, t2, t3}
    Ids = {i1, i2, i3}
    None = None
    Zip = FALSE
SYMMETRY Symmetry
INVARIANTS TypeOK RecordFollowsBinary ListingIsTrue
PROPERTIES IntactStays
