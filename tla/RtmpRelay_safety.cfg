SPECIFICATION Spec
CONSTANTS
  Client = {c1, c2}
  NULL = NULL
  MaxMeta = 2
SYMMETRY Symmetry
INVARIANTS
  TypeOK
  TableAligned
  PublisherLive
  StreamDecodable
  MetadataCurrent
  PassServesAll
PROPERTIES
  ImplementsRoom
