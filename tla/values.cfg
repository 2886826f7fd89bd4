\* Texts of up to four tokens, typed into an editor and saved, then opened and
\* saved again until nothing changes; values of other programs likewise.
SPECIFICATION ValuesSpec
CONSTANTS
  MaxLen = 4
  Written <- MCWritten
  Found <- MCFound
PROPERTIES
  SavedAsWritten
  TypedByConvention
  KeptUnlessLossy
  Settles
